---------------------------- MODULE Spec2Model ----------------------------
(***************************************************************************)
(* Chickpea-chips order processor: the order parser (src/app.py            *)
(* OrderParser), the Google-Sheets ledger integration (src/app.py          *)
(* GoogleSheetsIntegration), the Streamlit front end (src/app.py main) and *)
(* the Telegram bot front end (src/bot.py OrderBot).                       *)
(*                                                                         *)
(* Text is modelled at token level: a message is a sequence of tokens, the *)
(* text being the tokens joined by single spaces.  A token is a string:    *)
(* a run of decimal digits, a product code in some spelling, or a word.    *)
(* The regular expressions of the source are evaluated on that text; the   *)
(* places where a regular expression sees inside a token (the digit 2 of   *)
(* "2L-CHZ", the letters of a code, a keyword inside a longer word) are    *)
(* modelled by tables over the vocabulary.                                 *)
(***************************************************************************)
EXTENDS Integers, Sequences, FiniteSets, TLC

(***************************************************************************)
(* Bounds of the model.                                                    *)
(***************************************************************************)
\* the longest message, in tokens, of the interpreter's requests
MaxMsgLen == 2

\* the requests one parser serves
MaxRequests == 2

\* the ledger's rows 2..MaxRow can hold orders at the start
MaxRow == 4

(***************************************************************************)
(* Python values.                                                          *)
(***************************************************************************)
None == "<None>"

\* a run of more than 4300 decimal digits: int() of it raises ValueError
\* (CPython's integer string conversion length limit)
HugeDigits == "9{4301}"

IntOf == ("0" :> 0) @@ ("1" :> 1) @@ ("2" :> 2) @@ ("3" :> 3) @@ ("5" :> 5) @@ ("10" :> 10)

DigitStrings == DOMAIN IntOf \cup {HugeDigits}

\* str.isdigit()
IsDigit(s) == s \in DigitStrings

\* int(s) raises ValueError
IntRaises(s) == s = HugeDigits

\* int(s), for a digit string within the limit
PyInt(s) == IntOf[s]

(***************************************************************************)
(* The product catalog.                                                    *)
(***************************************************************************)
PRODUCTS ==
  [ code \in {"P-CHZ", "P-SC", "P-BBQ", "P-OG", "2L-CHZ", "2L-SC", "2L-BBQ", "2L-OG"} |->
      CASE code = "P-CHZ"  -> [code |-> code, name |-> "Cheese",     size |-> "Pouch", price |-> 150]
        [] code = "P-SC"   -> [code |-> code, name |-> "Sour Cream", size |-> "Pouch", price |-> 150]
        [] code = "P-BBQ"  -> [code |-> code, name |-> "BBQ",        size |-> "Pouch", price |-> 150]
        [] code = "P-OG"   -> [code |-> code, name |-> "Original",   size |-> "Pouch", price |-> 150]
        [] code = "2L-CHZ" -> [code |-> code, name |-> "Cheese",     size |-> "Tub",   price |-> 290]
        [] code = "2L-SC"  -> [code |-> code, name |-> "Sour Cream", size |-> "Tub",   price |-> 290]
        [] code = "2L-BBQ" -> [code |-> code, name |-> "BBQ",        size |-> "Tub",   price |-> 290]
        [] code = "2L-OG"  -> [code |-> code, name |-> "Original",   size |-> "Tub",   price |-> 290] ]

\* OrderItem(product, quantity)
OrderItem(product, quantity) == [product |-> product, quantity |-> quantity]

(***************************************************************************)
(* Letter case.  The tables list the spellings of the vocabulary that are  *)
(* not already in the target case.                                         *)
(***************************************************************************)
UpperTable ==
  ("p-chz" :> "P-CHZ") @@ ("p-sc" :> "P-SC") @@ ("p-bbq" :> "P-BBQ") @@ ("p-og" :> "P-OG") @@
  ("2l-chz" :> "2L-CHZ") @@ ("2l-sc" :> "2L-SC") @@ ("2l-bbq" :> "2L-BBQ") @@ ("2l-og" :> "2L-OG") @@
  ("cheese" :> "CHEESE") @@ ("bbq" :> "BBQ") @@ ("original" :> "ORIGINAL") @@
  ("sour cream" :> "SOUR CREAM") @@ ("x" :> "X")

\* str.upper()
Upper(s) == IF s \in DOMAIN UpperTable THEN UpperTable[s] ELSE s

LowerTable ==
  ("P-CHZ" :> "p-chz") @@ ("P-SC" :> "p-sc") @@ ("P-BBQ" :> "p-bbq") @@ ("P-OG" :> "p-og") @@
  ("2L-CHZ" :> "2l-chz") @@ ("2L-SC" :> "2l-sc") @@ ("2L-BBQ" :> "2l-bbq") @@ ("2L-OG" :> "2l-og") @@
  ("QC" :> "qc") @@ ("GCash" :> "gcash") @@ ("Maria" :> "maria") @@ ("BBQ" :> "bbq") @@
  ("Paranaque" :> "paranaque") @@ ("Cash" :> "cash") @@ ("BPI" :> "bpi")

\* str.lower()
Lower(s) == IF s \in DOMAIN LowerTable THEN LowerTable[s] ELSE s

(***************************************************************************)
(* What the regular expressions see inside a token.                        *)
(***************************************************************************)
CodeSpellings == DOMAIN PRODUCTS \cup {Lower(c) : c \in DOMAIN PRODUCTS}

\* the token matches (P-CHZ|P-SC|P-BBQ|P-OG|2L-CHZ|2L-SC|2L-BBQ|2L-OG), re.IGNORECASE
IsCodeTok(t) == t \in CodeSpellings

\* a code token that begins with the digit 2
Is2LCode(t) == t \in {"2L-CHZ", "2L-SC", "2L-BBQ", "2L-OG", "2l-chz", "2l-sc", "2l-bbq", "2l-og"}

\* the token is x or X
IsX(t) == Lower(t) = "x"

\* the first digit run of a token ("" when it has no digit)
DigitsIn(t) == IF IsDigit(t) THEN t ELSE IF Is2LCode(t) THEN "2" ELSE ""

\* the text of (cheese|bbq|original) inside a token, as spelled there ("" when none);
\* in a code token the alias follows the token's digit
AliasIn(t) ==
  CASE t \in {"cheese", "bbq", "original", "BBQ"} -> t
    [] t \in {"P-BBQ", "2L-BBQ"} -> "BBQ"
    [] t \in {"p-bbq", "2l-bbq"} -> "bbq"
    [] OTHER -> ""

\* the token is made of letters only
IsAlpha(t) == ~IsDigit(t) /\ ~IsCodeTok(t) /\ Lower(t) # "customer:" /\ t # "X-ZZZ" /\ t # ""

\* the longest run of letters a token begins with
LetterPrefix(t) ==
  CASE IsDigit(t) -> ""
    [] Is2LCode(t) -> ""
    [] t \in {"P-CHZ", "P-SC", "P-BBQ", "P-OG"} -> "P"
    [] t \in {"p-chz", "p-sc", "p-bbq", "p-og"} -> "p"
    [] Lower(t) = "customer:" -> "customer"
    [] t = "X-ZZZ" -> "X"
    [] OTHER -> t

\* the longest run of letters a token ends with
LetterSuffix(t) ==
  CASE IsDigit(t) -> ""
    [] t \in {"P-CHZ", "2L-CHZ"} -> "CHZ"
    [] t \in {"P-SC", "2L-SC"} -> "SC"
    [] t \in {"P-BBQ", "2L-BBQ"} -> "BBQ"
    [] t \in {"P-OG", "2L-OG"} -> "OG"
    [] t \in {"p-chz", "2l-chz"} -> "chz"
    [] t \in {"p-sc", "2l-sc"} -> "sc"
    [] t \in {"p-bbq", "2l-bbq"} -> "bbq"
    [] t \in {"p-og", "2l-og"} -> "og"
    [] Lower(t) = "customer:" -> ""
    [] t = "X-ZZZ" -> "ZZZ"
    [] OTHER -> t

\* " ".join(words)
RECURSIVE Join(_)
Join(words) ==
  IF words = <<>> THEN ""
  ELSE IF Len(words) = 1 THEN words[1]
  ELSE words[1] \o " " \o Join(Tail(words))

(***************************************************************************)
(* _basic_parse: the three product patterns, re.findall(pattern, message,  *)
(* re.IGNORECASE).  Each returns the matches, leftmost first and not       *)
(* overlapping, as pairs of the two groups' texts.                         *)
(***************************************************************************)
\* (\d+)\s*x?\s*(CODE)
RECURSIVE FindallQtyCode(_, _)
FindallQtyCode(message, i) ==
  IF i > Len(message) THEN <<>>
  ELSE IF IsDigit(message[i])
    THEN LET j == IF i + 1 <= Len(message) /\ IsX(message[i + 1]) THEN i + 2 ELSE i + 1
         IN IF j <= Len(message) /\ IsCodeTok(message[j])
              THEN << <<message[i], message[j]>> >> \o FindallQtyCode(message, j + 1)
              ELSE FindallQtyCode(message, i + 1)
    ELSE FindallQtyCode(message, i + 1)

\* (CODE)\s*x?\s*(\d+); eaten: token i has lost its leading digit to the match before
RECURSIVE FindallCodeQty(_, _, _)
FindallCodeQty(message, i, eaten) ==
  IF i > Len(message) THEN <<>>
  ELSE IF IsCodeTok(message[i]) /\ ~eaten
    THEN LET j == IF i + 1 <= Len(message) /\ IsX(message[i + 1]) THEN i + 2 ELSE i + 1
         IN IF j <= Len(message) /\ IsDigit(message[j])
              THEN << <<message[i], message[j]>> >> \o FindallCodeQty(message, j + 1, FALSE)
              ELSE IF j <= Len(message) /\ Is2LCode(message[j])
                THEN << <<message[i], "2">> >> \o FindallCodeQty(message, j, TRUE)
                ELSE FindallCodeQty(message, i + 1, FALSE)
    ELSE FindallCodeQty(message, i + 1, FALSE)

\* the alias a match of the third pattern may start with at token i
AliasAt(message, i) ==
  IF AliasIn(message[i]) # "" THEN AliasIn(message[i])
  ELSE IF Lower(message[i]) = "sour" /\ i + 1 <= Len(message) /\ Lower(message[i + 1]) = "cream"
    THEN message[i] \o " " \o message[i + 1]
    ELSE ""

\* (cheese|sour cream|bbq|original).*?(\d+); alias: the alias of the match begun, or ""
RECURSIVE FindallAliasQty(_, _, _)
FindallAliasQty(message, i, alias) ==
  IF i > Len(message) THEN <<>>
  ELSE IF alias = ""
    THEN FindallAliasQty(message, i + 1, AliasAt(message, i))
    ELSE IF DigitsIn(message[i]) # ""
      THEN << <<alias, DigitsIn(message[i])>> >>
           \o FindallAliasQty(message, i + 1, AliasIn(message[i]))
      ELSE FindallAliasQty(message, i + 1, alias)

\* the patterns list, each with its matches
PatternMatches(message) ==
  FindallQtyCode(message, 1) \o FindallCodeQty(message, 1, FALSE)
    \o FindallAliasQty(message, 1, "")

\* the digit string a match hands to int(), "" when the match is skipped
MatchDigits(match) ==
  IF IsDigit(match[1]) THEN match[1] ELSE IF IsDigit(match[2]) THEN match[2] ELSE ""

\* the product code of a match
MatchCode(match) == IF IsDigit(match[1]) THEN Upper(match[2]) ELSE Upper(match[1])

\* the loop over the matches: the items appended
RECURSIVE ItemsOfMatches(_)
ItemsOfMatches(matches) ==
  IF matches = <<>> THEN <<>>
  ELSE LET match == Head(matches)
       IN (IF MatchDigits(match) # "" /\ MatchCode(match) \in DOMAIN PRODUCTS
             THEN <<OrderItem(PRODUCTS[MatchCode(match)], PyInt(MatchDigits(match)))>>
             ELSE <<>>)
          \o ItemsOfMatches(Tail(matches))

\* some int() of the loop raises ValueError
MatchesRaise(matches) ==
  \E k \in 1..Len(matches) : MatchDigits(matches[k]) # "" /\ IntRaises(MatchDigits(matches[k]))

(***************************************************************************)
(* _basic_parse: the customer name patterns, re.search(pattern, message,   *)
(* re.IGNORECASE), the first pattern that matches giving group(1).strip(). *)
(***************************************************************************)
\* the words [A-Za-z\s]+ takes from token j on
RECURSIVE LetterRun(_, _)
LetterRun(message, j) ==
  IF j > Len(message) THEN <<>>
  ELSE IF IsAlpha(message[j]) THEN <<message[j]>> \o LetterRun(message, j + 1)
  ELSE IF LetterPrefix(message[j]) # "" THEN <<LetterPrefix(message[j])>>
  ELSE <<>>

Min(S) == CHOOSE x \in S : \A y \in S : x <= y

Max(S) == CHOOSE x \in S : \A y \in S : x >= y

\* from\s+([A-Za-z\s]+)
SearchFrom(message) ==
  LET at == {i \in 1..Len(message) - 1 :
               Lower(message[i]) = "from" /\ LetterPrefix(message[i + 1]) # ""}
  IN IF at = {} THEN None ELSE Join(LetterRun(message, Min(at) + 1))

\* the first token of the run of letter-only tokens that token j ends
RunStart(message, j) ==
  Min({a \in 1..j : \A k \in a..j : IsAlpha(message[k])})

\* the letters before the run that starts at token a
LettersBefore(message, a) ==
  IF a > 1 /\ LetterSuffix(message[a - 1]) # "" THEN <<LetterSuffix(message[a - 1])>> ELSE <<>>

\* ([A-Za-z\s]+)\s+ordered
SearchOrdered(message) ==
  LET at == {j \in 1..Len(message) :
               /\ Lower(message[j]) = "ordered"
               /\ (j > RunStart(message, j) \/ LettersBefore(message, RunStart(message, j)) # <<>>)}
  IN IF at = {} THEN None
     ELSE LET a == Min({RunStart(message, j) : j \in at})
              j == Max({k \in at : RunStart(message, k) = a})
          IN Join(LettersBefore(message, a) \o SubSeq(message, a, j - 1))

\* customer:\s*([A-Za-z\s]+)
SearchCustomer(message) ==
  LET at == {i \in 1..Len(message) - 1 : Lower(message[i]) = "customer:"}
  IN IF at = {} THEN None ELSE Join(LetterRun(message, Min(at) + 1))

\* the loop over name_patterns
ExtractCustomerName(message) ==
  IF SearchFrom(message) # None THEN SearchFrom(message)
  ELSE IF SearchOrdered(message) # None THEN SearchOrdered(message)
  ELSE SearchCustomer(message)

(***************************************************************************)
(* Keyword tests: keyword in message_lower.  A keyword is a sequence of    *)
(* words; it occurs when its first word ends a token, its last word begins *)
(* a token, and the words between are the tokens between.                  *)
(***************************************************************************)
\* the proper substrings of a (lowercased) token that are keyword words: <<token, word, how>>
\* with how "in" (inside), "start" (the token begins with it), "end" (the token ends with it)
Inside ==
  { <<"gcash", "cash", "end">>, <<"g-cash", "cash", "end">>, <<"g-cash", "g", "start">>,
    <<"paymaya", "maya", "end">>, <<"paymaya", "pay", "start">>, <<"code", "cod", "start">>,
    <<"banking", "bank", "start">>,
    <<"cashier", "cash", "start">> }

\* word is a substring of the lowercased token
HasWord(t, word) == Lower(t) = word \/ \E h \in {"in", "start", "end"} : <<Lower(t), word, h>> \in Inside

\* the lowercased token begins with word
StartsWith(t, word) == Lower(t) = word \/ <<Lower(t), word, "start">> \in Inside

\* the lowercased token ends with word
EndsWith(t, word) == Lower(t) = word \/ <<Lower(t), word, "end">> \in Inside

\* keyword in message_lower
KeywordIn(keyword, message) ==
  LET n == Len(keyword)
  IN IF n = 1 THEN \E i \in 1..Len(message) : HasWord(message[i], keyword[1])
     ELSE \E i \in 1..Len(message) - n + 1 :
            /\ EndsWith(message[i], keyword[1])
            /\ StartsWith(message[i + n - 1], keyword[n])
            /\ \A k \in 2..n - 1 : Lower(message[i + k - 1]) = keyword[k]

\* any(keyword in message_lower for keyword in keywords)
AnyKeywordIn(keywords, message) == \E keyword \in keywords : KeywordIn(keyword, message)

\* _detect_payment_method with the Cash keywords tested before the Gcash keywords
DetectPaymentMethod_CashFirst(message) ==
  IF AnyKeywordIn({<<"cash">>, <<"cod">>, <<"cash", "on", "delivery">>, <<"bayad", "cash">>},
                  message) THEN "Cash"
  ELSE IF AnyKeywordIn({<<"gcash">>, <<"g-cash">>, <<"g", "cash">>}, message) THEN "Gcash"
  ELSE IF AnyKeywordIn({<<"bpi">>}, message) THEN "BPI"
  ELSE IF AnyKeywordIn({<<"maya">>, <<"paymaya">>, <<"pay", "maya">>}, message) THEN "Maya"
  ELSE IF AnyKeywordIn({<<"bdo">>}, message) THEN "BDO"
  ELSE IF AnyKeywordIn({<<"transfer">>, <<"bank">>, <<"online">>}, message) THEN "Others"
  ELSE None

\* _detect_payment_method
DetectPaymentMethod(message) ==
  IF AnyKeywordIn({<<"gcash">>, <<"g-cash">>, <<"g", "cash">>}, message) THEN "Gcash"
  ELSE IF AnyKeywordIn({<<"bpi">>}, message) THEN "BPI"
  ELSE IF AnyKeywordIn({<<"maya">>, <<"paymaya">>, <<"pay", "maya">>}, message) THEN "Maya"
  ELSE IF AnyKeywordIn({<<"cash">>, <<"cod">>, <<"cash", "on", "delivery">>, <<"bayad", "cash">>},
                       message) THEN "Cash"
  ELSE IF AnyKeywordIn({<<"bdo">>}, message) THEN "BDO"
  ELSE IF AnyKeywordIn({<<"transfer">>, <<"bank">>, <<"online">>}, message) THEN "Others"
  ELSE None

\* _detect_location_and_seller with the two sellers exchanged
DetectLocationAndSeller_SwapsSellers(message) ==
  IF AnyKeywordIn({<<"quezon", "city">>, <<"qc">>}, message) THEN <<"Quezon City", "Nina">>
  ELSE IF AnyKeywordIn({<<"paranaque">>}, message) THEN <<"Paranaque", "Ferdie">>
  ELSE <<None, None>>

\* _detect_location_and_seller with the Paranaque keywords tested first
DetectLocationAndSeller_ParanaqueFirst(message) ==
  IF AnyKeywordIn({<<"paranaque">>, <<"parana~aque">>, <<"para~aque">>,
                   <<"sa", "paranaque">>, <<"galing", "paranaque">>,
                   <<"dito", "sa", "paranaque">>, <<"taga", "paranaque">>,
                   <<"paranaque", "area">>}, message) THEN <<"Paranaque", "Nina">>
  ELSE IF AnyKeywordIn({<<"quezon", "city">>, <<"qc">>, <<"sa", "qc">>, <<"galing", "qc">>,
                        <<"dito", "sa", "quezon", "city">>, <<"taga", "qc">>, <<"qc", "area">>},
                       message) THEN <<"Quezon City", "Ferdie">>
  ELSE <<None, None>>

\* _detect_location_and_seller: <<location, auto_sold_by>> (n~ stands for the letter
\* n with tilde of the two accented spellings)
DetectLocationAndSeller(message) ==
  IF AnyKeywordIn({<<"quezon", "city">>, <<"qc">>, <<"sa", "qc">>, <<"galing", "qc">>,
                   <<"dito", "sa", "quezon", "city">>, <<"taga", "qc">>, <<"qc", "area">>},
                  message) THEN <<"Quezon City", "Ferdie">>
  ELSE IF AnyKeywordIn({<<"paranaque">>, <<"parana~aque">>, <<"para~aque">>,
                        <<"sa", "paranaque">>, <<"galing", "paranaque">>,
                        <<"dito", "sa", "paranaque">>, <<"taga", "paranaque">>,
                        <<"paranaque", "area">>}, message) THEN <<"Paranaque", "Nina">>
  ELSE <<None, None>>

(***************************************************************************)
(* ParsedOrder and the outcome of a call: a value returned or an exception *)
(* raised.                                                                 *)
(***************************************************************************)
ParsedOrder(customer_name, items, total_amount, raw_message, payment_method, customer_location, auto_sold_by) ==
  [customer_name |-> customer_name, items |-> items, total_amount |-> total_amount,
   raw_message |-> raw_message, payment_method |-> payment_method,
   customer_location |-> customer_location, auto_sold_by |-> auto_sold_by]

NoOrder == ParsedOrder(None, <<>>, 0, <<>>, None, None, None)

Returns(order) == [raised |-> "", order |-> order]

Raises(exception) == [raised |-> exception, order |-> NoOrder]

\* the sum of the prices of the items, the quantities left out
RECURSIVE Total_IgnoresQuantity(_)
Total_IgnoresQuantity(items) ==
  IF items = <<>> THEN 0
  ELSE Head(items).product.price + Total_IgnoresQuantity(Tail(items))

\* sum(item.quantity * item.product.price for item in items)
RECURSIVE Total(_)
Total(items) ==
  IF items = <<>> THEN 0
  ELSE Head(items).quantity * Head(items).product.price + Total(Tail(items))

\* _basic_parse
BasicParse(message) ==
  IF MatchesRaise(PatternMatches(message)) THEN Raises("ValueError")
  ELSE LET items == ItemsOfMatches(PatternMatches(message))
       IN Returns(ParsedOrder(ExtractCustomerName(message), items, Total(items), message,
                              DetectPaymentMethod(message),
                              DetectLocationAndSeller(message)[1],
                              DetectLocationAndSeller(message)[2]))

(***************************************************************************)
(* The oracle's reply.  A response has a content list, empty or holding    *)
(* one text; the text has a shape and carries one JSON value.              *)
(*   object         the text is one JSON object                            *)
(*   prose_object   prose around one JSON object, no other brace           *)
(*   fenced         a ```json block holding the object, no other brace     *)
(*   fenced_braces  as fenced, with braces in the prose before the block   *)
(*   two_objects    two JSON objects with prose between                    *)
(*   truncated      an object cut short after an inner closing brace       *)
(*   bare           JSON that is no object: a list, a number               *)
(*   no_json        prose without JSON                                     *)
(* A JSON value is a record: type "dict" with the keys present and the     *)
(* members' values (null is None), "list" with its elements in keys, or    *)
(* "number".  An item is a dict with product_code and quantity; qtype      *)
(* tells the JSON type of quantity ("int", "str", "null").                 *)
(***************************************************************************)
JsonItem(product_code, qtype, quantity) ==
  [product_code |-> product_code, qtype |-> qtype, quantity |-> quantity]

JsonDict(keys, customer_name, payment_method, customer_location, items) ==
  [type |-> "dict", keys |-> keys, customer_name |-> customer_name,
   payment_method |-> payment_method, customer_location |-> customer_location,
   items |-> items, items_null |-> FALSE]

JsonOther(type, elements) ==
  [type |-> type, keys |-> elements, customer_name |-> None, payment_method |-> None,
   customer_location |-> None, items |-> <<>>, items_null |-> FALSE]

NoJson == JsonOther("none", {})

Response(has_content, shape, json) == [has_content |-> has_content, shape |-> shape, json |-> json]

\* bool(json_data)
Truthy(json_data) ==
  CASE json_data.type = "dict" -> json_data.keys # {}
    [] json_data.type = "list" -> json_data.keys # {}
    [] json_data.type = "number" -> TRUE
    [] OTHER -> FALSE

\* strategy 1: re.search(r'\{.*\}', response_text, re.DOTALL), json.loads of the match
Strategy1(response) ==
  IF response.shape \in {"object", "prose_object", "fenced", "list_of_object"}
  THEN response.json ELSE NoJson

\* strategy 2: re.search(r'```json\s*(\{.*?\})\s*```', ...), json.loads of group 1
Strategy2(response) ==
  IF response.shape \in {"fenced", "fenced_braces"} THEN response.json ELSE NoJson

\* strategy 3: json.loads(response_text)
Strategy3(response) ==
  IF response.shape \in {"object", "bare"} THEN response.json
  ELSE IF response.shape = "list_of_object" THEN JsonOther("list", {"<object>"})
  ELSE NoJson

\* json_data after the three strategies
JsonData(response) ==
  LET j1 == Strategy1(response)
      j2 == IF ~Truthy(j1) THEN Strategy2(response) ELSE j1
  IN IF ~Truthy(j2) THEN Strategy3(response) ELSE j2

\* data.get(key): None when the key is missing
Get(data, key) ==
  IF key \notin data.keys THEN None
  ELSE CASE key = "customer_name" -> data.customer_name
         [] key = "payment_method" -> data.payment_method
         [] key = "customer_location" -> data.customer_location

\* the item is kept: product_code in PRODUCTS and quantity > 0
ItemKept(item_data) == Upper(item_data.product_code) \in DOMAIN PRODUCTS /\ item_data.quantity > 0

\* the item raises: .upper() of None, or quantity > 0 on a str or None (evaluated only
\* when the code is in PRODUCTS)
ItemRaises(item_data) ==
  \/ item_data.product_code = None
  \/ Upper(item_data.product_code) \in DOMAIN PRODUCTS /\ item_data.qtype # "int"

\* the loop over data.get('items', [])
RECURSIVE ItemsOfJson(_)
ItemsOfJson(items) ==
  IF items = <<>> THEN <<>>
  ELSE (IF ItemKept(Head(items))
          THEN <<OrderItem(PRODUCTS[Upper(Head(items).product_code)], Head(items).quantity)>>
          ELSE <<>>)
       \o ItemsOfJson(Tail(items))

\* _create_order_from_json
CreateOrderFromJson(data, raw_message) ==
  IF data.type # "dict" THEN Raises("AttributeError")
  ELSE IF "items" \in data.keys /\ data.items_null THEN Raises("TypeError")
  ELSE IF \E k \in 1..Len(data.items) : ItemRaises(data.items[k])
    THEN Raises(IF data.items[Min({k \in 1..Len(data.items) : ItemRaises(data.items[k])})].product_code = None
                  THEN "AttributeError" ELSE "TypeError")
  ELSE LET items == ItemsOfJson(IF "items" \in data.keys THEN data.items ELSE <<>>)
           location == Get(data, "customer_location")
           auto_sold_by == IF location = "Quezon City" THEN "Ferdie"
                           ELSE IF location = "Paranaque" THEN "Nina" ELSE None
       IN Returns(ParsedOrder(Get(data, "customer_name"), items, Total(items), raw_message,
                              Get(data, "payment_method"), location, auto_sold_by))

\* ExtractBranch with the test 'items' in json_data left out
ExtractBranch_NoItemsTest(response, original_message) ==
  IF ~response.has_content THEN "except"
  ELSE LET json_data == JsonData(response)
       IN IF ~Truthy(json_data) THEN "else"
          ELSE IF json_data.type = "number" THEN "except"
          ELSE IF CreateOrderFromJson(json_data, original_message).raised # "" THEN "except"
          ELSE "create"

\* ExtractBranch falling back when the order created has no items
ExtractBranch_EmptyFallsBack(response, original_message) ==
  IF ~response.has_content THEN "except"
  ELSE LET json_data == JsonData(response)
       IN IF ~Truthy(json_data) THEN "else"
          ELSE IF json_data.type = "number" THEN "except"
          ELSE IF "items" \notin json_data.keys THEN "else"
          ELSE IF CreateOrderFromJson(json_data, original_message).raised # "" THEN "except"
          ELSE IF CreateOrderFromJson(json_data, original_message).order.items = <<>> THEN "else"
          ELSE "create"

\* the branch _extract_and_validate_response takes: "create" (the if), "else", or
\* "except" with the exception caught
ExtractBranch(response, original_message) ==
  IF ~response.has_content THEN "except"
  ELSE LET json_data == JsonData(response)
       IN IF ~Truthy(json_data) THEN "else"
          ELSE IF json_data.type = "number" THEN "except"
          ELSE IF "items" \notin json_data.keys THEN "else"
          ELSE IF CreateOrderFromJson(json_data, original_message).raised # "" THEN "except"
          ELSE "create"

\* _extract_and_validate_response
ExtractAndValidateResponse(response, original_message) ==
  IF ExtractBranch(response, original_message) = "create"
    THEN CreateOrderFromJson(JsonData(response), original_message)
    ELSE BasicParse(original_message)

\* what client.messages.create does: raises, or returns a response
NoResponse == Response(FALSE, "no_json", NoJson)

ApiRaises == [raises |-> TRUE, response |-> NoResponse]

ApiReturns(response) == [raises |-> FALSE, response |-> response]

\* parse_order_with_claude, given whether a client is configured and what the call does
ParseOrderWithClaude(message, client, api) ==
  IF ~client THEN BasicParse(message)
  ELSE IF api.raises THEN BasicParse(message)
  ELSE IF ExtractAndValidateResponse(api.response, message).raised # "" THEN BasicParse(message)
  ELSE ExtractAndValidateResponse(api.response, message)

\* total_items of main(): the quantities of the items added up
RECURSIVE TotalItems(_)
TotalItems(items) ==
  IF items = <<>> THEN 0 ELSE Head(items).quantity + TotalItems(Tail(items))

\* order_data of main(), the record the Download Order JSON button exports
OrderData(parsed_order) ==
  [customer_name |-> parsed_order.customer_name,
   payment_method |-> parsed_order.payment_method,
   customer_location |-> parsed_order.customer_location,
   auto_sold_by |-> parsed_order.auto_sold_by,
   items |-> [k \in 1..Len(parsed_order.items) |->
                [product_code |-> parsed_order.items[k].product.code,
                 product_name |-> parsed_order.items[k].product.name \o " "
                                    \o parsed_order.items[k].product.size,
                 quantity |-> parsed_order.items[k].quantity,
                 unit_price |-> parsed_order.items[k].product.price,
                 total_price |-> parsed_order.items[k].quantity
                                   * parsed_order.items[k].product.price]],
   total_amount |-> parsed_order.total_amount,
   total_items |-> TotalItems(parsed_order.items)]

(***************************************************************************)
(* The inputs of the interpreter: messages and what the oracle replies.    *)
(***************************************************************************)
RECURSIVE SeqsUpTo(_, _)
SeqsUpTo(S, n) ==
  IF n = 0 THEN {<<>>}
  ELSE SeqsUpTo(S, n - 1) \cup {Append(q, x) : q \in {r \in SeqsUpTo(S, n - 1) : Len(r) = n - 1}, x \in S}

InterpVocab == {"2", "P-CHZ", "2l-bbq", HugeDigits, "from", "gcash", "QC"}

InterpMessages == SeqsUpTo(InterpVocab, MaxMsgLen)

AllKeys == {"customer_name", "payment_method", "customer_location", "items", "confidence", "notes"}

OracleItemLists ==
  { <<>>,
    <<JsonItem("P-CHZ", "int", 2)>>,
    <<JsonItem("p-chz", "int", 2), JsonItem("2L-BBQ", "int", 1)>>,
    <<JsonItem("P-CHZ", "int", 1), JsonItem("P-CHZ", "int", 2)>>,
    <<JsonItem("X-ZZZ", "int", 5)>>,
    <<JsonItem("X-ZZZ", "str", 0)>>,
    <<JsonItem("P-CHZ", "int", 0)>>,
    <<JsonItem("P-SC", "int", -1), JsonItem("P-OG", "int", 3)>>,
    <<JsonItem("P-OG", "int", 3), JsonItem("P-CHZ", "str", 0)>>,
    <<JsonItem(None, "int", 1)>> }

\* <<customer_name, payment_method, customer_location>>
OracleMetas ==
  { <<None, None, None>>, <<"Ana", "Gcash", "Quezon City">>,
    <<"Ana", "PayPal", "Makati">>, <<None, "Cash", "Paranaque">> }

OracleObjects ==
  {JsonDict(AllKeys, m[1], m[2], m[3], items) : m \in OracleMetas, items \in OracleItemLists}
    \cup {JsonDict(AllKeys \ {"items"}, "Ana", "Gcash", "Quezon City", <<>>),
          JsonDict({"items"}, None, None, None, <<JsonItem("P-CHZ", "int", 2)>>),
          JsonDict({}, None, None, None, <<>>),
          [JsonDict(AllKeys, "Ana", "Gcash", "Quezon City", <<>>) EXCEPT !.items_null = TRUE]}

\* the objects sent in every shape
ShapedObjects ==
  {JsonDict(AllKeys, "Ana", "Gcash", "Quezon City", items) :
     items \in {<<>>, <<JsonItem("P-CHZ", "int", 2)>>}}
    \cup {JsonDict(AllKeys \ {"items"}, "Ana", "Gcash", "Quezon City", <<>>)}

OracleResponses ==
  {Response(TRUE, "object", json) : json \in OracleObjects}
    \cup {Response(TRUE, shape, json) :
            shape \in {"prose_object", "fenced", "fenced_braces"}, json \in ShapedObjects}
    \cup {Response(TRUE, shape, JsonDict(AllKeys, "Ana", "Gcash", "Quezon City",
                                             <<JsonItem("P-CHZ", "int", 2)>>)) :
            shape \in {"two_objects", "truncated", "list_of_object"}}
    \cup {Response(TRUE, "bare", json) :
            json \in {JsonOther("list", {}), JsonOther("list", {"1"}),
                      JsonOther("list", {"items"}), JsonOther("number", {})}}
    \cup {Response(TRUE, "no_json", NoJson), Response(FALSE, "no_json", NoJson)}

(***************************************************************************)
(* The ledger: the ORDER worksheet.  A cell holds the text the sheet shows *)
(* ("" when empty); a row is a function from the column numbers 1..NumCols *)
(* (A..AB) to cells; the sheet is a function from the row numbers of Rows  *)
(* to rows.  Rows holds row 1 (the headers), the rows 2..MaxRow, and the   *)
(* rows around the two row numbers the code names: the fallback row and    *)
(* the last row of the scanned range.  Rows outside Rows are empty.        *)
(***************************************************************************)
\* row_data = [""] * 28; the range A{row}:AB{row}
NumCols == 28

\* range_to_check = "D1:W2000"
ScanLimit == 2000

\* return 526
FallbackRow == 526

Rows == (1..MaxRow) \cup {FallbackRow, ScanLimit, ScanLimit + 1}

Letters ==
  <<"A", "B", "C", "D", "E", "F", "G", "H", "I", "J", "K", "L", "M", "N", "O", "P", "Q",
    "R", "S", "T", "U", "V", "W", "X", "Y", "Z">>

\* ord(column_letter) - ord('A')
Ord0(column_letter) == (CHOOSE i \in 1..Len(Letters) : Letters[i] = column_letter) - 1

\* col_num = ord(column_letter) - ord('A') + 1
ColNum(column_letter) == Ord0(column_letter) + 1

EmptyRow == [c \in 1..NumCols |-> ""]

\* str(v).strip() of the cell texts of the model
Strip(s) == IF s = " " THEN "" ELSE IF s = " 0 " THEN "0" ELSE s

\* one row of worksheet.get("D1:W2000"): the cells D..W of the row, the empty cells at
\* the end left out; row_data[i] of the code is RowData(sheet, r)[i + 1]
RECURSIVE Trimmed(_)
Trimmed(cells) ==
  IF cells = <<>> THEN <<>>
  ELSE IF cells[Len(cells)] = "" THEN Trimmed(SubSeq(cells, 1, Len(cells) - 1))
  ELSE cells

RowData(sheet, r) == Trimmed(SubSeq(sheet[r], ColNum("D"), ColNum("W")))

\* product_column_indices, N,O,P,Q,T,U,V,W in the range D..W
ProductColumnIndices == {10, 11, 12, 13, 16, 17, 18, 19}

\* has_customer_data
HasCustomerData(row_data) ==
  Len(row_data) > 0 /\ row_data[0 + 1] # "" /\ Strip(row_data[0 + 1]) # ""

\* has_product_data
HasProductData(row_data) ==
  \E col_index \in ProductColumnIndices :
    /\ Len(row_data) > col_index
    /\ row_data[col_index + 1] # ""
    /\ Strip(row_data[col_index + 1]) # ""
    /\ Strip(row_data[col_index + 1]) # "0"

\* the rows of all_data that the loop finds occupied
RowsWithData(sheet) ==
  {r \in Rows : /\ r <= ScanLimit
                /\ r # 1
                /\ \E row_data \in {RowData(sheet, r)} :
                     HasCustomerData(row_data) \/ HasProductData(row_data)}

\* find_next_available_row, if a scan that raises gave the row after the header
FindNextAvailableRow_NoFallback(sheet, scan) ==
  LET last_row_with_data ==
        IF scan # "ok" \/ RowsWithData(sheet) = {} THEN 1 ELSE Max(RowsWithData(sheet))
  IN last_row_with_data + 1

\* find_next_available_row; scan tells whether worksheet.get returns ("ok") or raises
FindNextAvailableRow(sheet, scan) ==
  IF scan # "ok" THEN FallbackRow
  ELSE LET last_row_with_data ==
             IF RowsWithData(sheet) = {} THEN 1 ELSE Max(RowsWithData(sheet))
       IN last_row_with_data + 1

(***************************************************************************)
(* Writing an order.  A value to write is a record: the text the cell will *)
(* show and the truth value Python gives the value (0 and "" are false).   *)
(* updates is the dict of the code as the sequence of its entries in       *)
(* insertion order.  failing is the set of column letters whose            *)
(* update_cell call raises; api tells whether worksheet.update raises.     *)
(***************************************************************************)
StrOf == (0 :> "0") @@ (1 :> "1") @@ (2 :> "2") @@ (3 :> "3") @@ (5 :> "5") @@ (10 :> "10")

IntValue(quantity) == [cell |-> StrOf[quantity], truthy |-> quantity # 0]

StrValue(s) == [cell |-> IF s = None THEN "" ELSE s, truthy |-> s # None /\ s # ""]

\* today.strftime("%Y-%m-%d")
Today == "2026-11-04"

\* x or "Unknown"
OrElse(x, default) == IF x = None \/ x = "" THEN default ELSE x

\* updates[key] = value
DictSet(updates, key, value) ==
  IF \E i \in 1..Len(updates) : updates[i].key = key
  THEN [i \in 1..Len(updates) |->
          IF updates[i].key = key THEN [key |-> key, value |-> value] ELSE updates[i]]
  ELSE Append(updates, [key |-> key, value |-> value])

\* ProductColumn with the columns of P-CHZ and P-SC exchanged
ProductColumn_Swapped(product_code) ==
  CASE product_code = "P-CHZ" -> "O"
    [] product_code = "P-SC" -> "N"
    [] product_code = "P-BBQ" -> "P"
    [] product_code = "P-OG" -> "Q"
    [] product_code = "2L-CHZ" -> "T"
    [] product_code = "2L-SC" -> "U"
    [] product_code = "2L-BBQ" -> "V"
    [] product_code = "2L-OG" -> "W"
    [] OTHER -> ""

\* the if/elif chain from product codes to column letters
ProductColumn(product_code) ==
  CASE product_code = "P-CHZ" -> "N"
    [] product_code = "P-SC" -> "O"
    [] product_code = "P-BBQ" -> "P"
    [] product_code = "P-OG" -> "Q"
    [] product_code = "2L-CHZ" -> "T"
    [] product_code = "2L-SC" -> "U"
    [] product_code = "2L-BBQ" -> "V"
    [] product_code = "2L-OG" -> "W"
    [] OTHER -> ""

\* for item in parsed_order.items: updates[column] = quantity
RECURSIVE WithProducts(_, _)
WithProducts(updates, items) ==
  IF items = <<>> THEN updates
  ELSE LET column == ProductColumn(Head(items).product.code)
       IN WithProducts(IF column = "" THEN updates
                       ELSE DictSet(updates, column, IntValue(Head(items).quantity)),
                       Tail(items))

\* update_data of update_order_row
UpdateData(parsed_order, sold_by) ==
  WithProducts(<<[key |-> "C", value |-> StrValue(Today)],
                 [key |-> "D", value |-> StrValue(OrElse(parsed_order.customer_name, "Unknown"))],
                 [key |-> "E", value |-> StrValue(sold_by)],
                 [key |-> "H", value |-> StrValue("Unpaid")]>>,
               parsed_order.items)

\* updates of update_order_simple
SimpleUpdates(parsed_order) ==
  WithProducts(
    <<[key |-> "C", value |-> StrValue(Today)],
      [key |-> "D", value |-> StrValue(OrElse(parsed_order.customer_name, "Unknown"))]>>
    \o (IF StrValue(parsed_order.auto_sold_by).truthy
        THEN <<[key |-> "E", value |-> StrValue(parsed_order.auto_sold_by)]>> ELSE <<>>)
    \o <<[key |-> "H", value |-> StrValue("Unpaid")]>>
    \o (IF StrValue(parsed_order.payment_method).truthy
        THEN <<[key |-> "G", value |-> StrValue(parsed_order.payment_method)]>> ELSE <<>>)
    \o <<[key |-> "J", value |-> StrValue("<robot>")],
         [key |-> "K", value |-> StrValue("Reserved")]>>,
    parsed_order.items)

\* worksheet.update_cell(row_number, col_num, value)
UpdateCell(sheet, row_number, col_num, value) ==
  [sheet EXCEPT ![row_number][col_num] = value.cell]

\* the loop of update_order_row over update_data: a call that raises is skipped
RECURSIVE CellsEach(_, _, _, _)
CellsEach(sheet, row_number, updates, failing) ==
  IF updates = <<>> THEN sheet
  ELSE LET u == Head(updates)
       IN CellsEach(IF u.value.truthy /\ u.key \notin failing
                    THEN UpdateCell(sheet, row_number, ColNum(u.key), u.value)
                    ELSE sheet,
                    row_number, Tail(updates), failing)

\* updates_made of update_order_row
UpdatesMade(updates, failing) ==
  SelectSeq(updates, LAMBDA u : u.value.truthy /\ u.key \notin failing)

\* update_order_row; connected tells whether self.worksheet is set
UpdateOrderRow(sheet, parsed_order, row_number, sold_by, connected, failing) ==
  IF ~connected THEN [sheet |-> sheet, result |-> FALSE]
  ELSE [sheet |-> CellsEach(sheet, row_number, UpdateData(parsed_order, sold_by), failing),
        result |-> Len(UpdatesMade(UpdateData(parsed_order, sold_by), failing)) > 0]

\* the loop of update_order_simple over updates: the first call that raises ends it
RECURSIVE CellsUntil(_, _, _, _)
CellsUntil(sheet, row_number, updates, failing) ==
  IF updates = <<>> THEN sheet
  ELSE LET u == Head(updates)
       IN IF ~u.value.truthy THEN CellsUntil(sheet, row_number, Tail(updates), failing)
          ELSE IF u.key \in failing THEN sheet
          ELSE CellsUntil(UpdateCell(sheet, row_number, ColNum(u.key), u.value),
                          row_number, Tail(updates), failing)

\* update_order_simple; a worksheet that is not set makes the first update_cell raise
UpdateOrderSimple(sheet, parsed_order, row_number, connected, failing) ==
  LET updates == SimpleUpdates(parsed_order)
      raising == IF connected THEN failing ELSE {updates[i].key : i \in 1..Len(updates)}
  IN [sheet |-> CellsUntil(sheet, row_number, updates, raising),
      result |-> \A i \in 1..Len(updates) :
                   updates[i].value.truthy => updates[i].key \notin raising]

\* the if/elif chain from product codes to indices of row_data; -1 when no branch is taken
BatchIndex(product_code) ==
  CASE product_code = "P-CHZ" -> 13
    [] product_code = "P-SC" -> 14
    [] product_code = "P-BBQ" -> 15
    [] product_code = "P-OG" -> 16
    [] product_code = "2L-CHZ" -> 19
    [] product_code = "2L-SC" -> 20
    [] product_code = "2L-BBQ" -> 21
    [] product_code = "2L-OG" -> 22
    [] OTHER -> -1

\* row_data[index] = value for the items, by the if/elif chain of update_order_row_batch
RECURSIVE BatchProducts(_, _)
BatchProducts(row_data, items) ==
  IF items = <<>> THEN row_data
  ELSE LET index == BatchIndex(Head(items).product.code)
       IN BatchProducts(IF index < 0 THEN row_data
                        ELSE [row_data EXCEPT ![index] = IntValue(Head(items).quantity)],
                        Tail(items))

\* row_data of update_order_row_batch, indexed from 0
BatchRowData(parsed_order, sold_by) ==
  BatchProducts(
    [i \in 0..(NumCols - 1) |->
       CASE i = 2 -> StrValue(Today)
         [] i = 3 -> StrValue(OrElse(parsed_order.customer_name, "Unknown"))
         [] i = 4 -> StrValue(sold_by)
         [] i = 7 -> StrValue("Unpaid")
         [] OTHER -> StrValue("")],
    parsed_order.items)

\* update_order_row_batch: worksheet.update(values=[row_data], range_name="A{r}:AB{r}")
UpdateOrderRowBatch(sheet, parsed_order, row_number, sold_by, connected, api_ok) ==
  IF ~connected \/ ~api_ok THEN [sheet |-> sheet, result |-> FALSE]
  ELSE [sheet |-> [sheet EXCEPT ![row_number] =
                     [c \in 1..NumCols |-> BatchRowData(parsed_order, sold_by)[c - 1].cell]],
        result |-> TRUE]

(***************************************************************************)
(* State.                                                                  *)
(*   pc            where the request in progress is: "Idle" (no request    *)
(*                 yet), "TryOracle", "Decode", "Fallback", "Done"         *)
(*   message       the request's text                                      *)
(*   client        self.client is set                                      *)
(*   api           what client.messages.create did                         *)
(*   fallbackAt    the _basic_parse call a request in Fallback is at:      *)
(*                 "L141", "L275", "L313" or "L317" (the source line)      *)
(*   outcome       what parse_order_with_claude returned or raised         *)
(*   source        the call that produced outcome: "oracle" or "basic"     *)
(*   oracleCalls   the calls of client.messages.create in this request     *)
(*   requests      the requests begun                                      *)
(*   prevSource    source of the request that returned last                *)
(*   sheet         the ledger                                              *)
(*   found         what the last calls of find_next_available_row (two at  *)
(*                 most) returned since the ledger was last written        *)
(*   lastWrite     the last call of an update method: the method, its      *)
(*                 arguments, the ledger before it and what it returned    *)
(*   writes        the calls of the update methods                         *)
(*   web           st.session_state of each browser session of the web     *)
(*                 front end: parsed_order (has_order tells whether it is  *)
(*                 set), next_row (0 when not set), and                    *)
(*                 whether the last run of the script showed the Update    *)
(*                 Google Sheet button                                     *)
(*   bot           context.user_data of each chat of the bot: the pending  *)
(*                 order with its shipping fee and discount, and of the    *)
(*                 chat's history whether it was sent the buttons, the     *)
(*                 summary and the breakdown it was last sent (the items,  *)
(*                 the fee and the discount they were made of and the text *)
(*                 of the final total, <<>> when none was sent),           *)
(*                 how many times the pending order was inserted, whether  *)
(*                 it was cancelled, the order parsed last and the order   *)
(*                 that was pending when that one was parsed               *)
(*   ledgerLog     the ledger operations the front ends invoked: the       *)
(*                 session, the operation, its row, and the signal (the    *)
(*                 button clicked, the callback data) the front end was    *)
(*                 handling                                                *)
(*   events        the script runs and the updates handled                 *)
(*   lastConfirm   the last confirmation a front end handled with an order *)
(*                 pending: the session, the order, whether the ledger     *)
(*                 write succeeded, the number of the event, and whether   *)
(*                 the session's confirmation before it failed on the same *)
(*                 order                                                   *)
(***************************************************************************)
VARIABLES pc, message, client, api, fallbackAt, outcome, source, oracleCalls, requests,
          prevSource, sheet, found, lastWrite, writes, web, bot, ledgerLog, events,
          lastConfirm

interpVars == <<pc, message, client, api, fallbackAt, outcome, source, oracleCalls, requests,
                prevSource>>

ledgerVars == <<sheet, found, lastWrite, writes>>

frontVars == <<web, bot, ledgerLog, events, lastConfirm>>

vars == <<interpVars, ledgerVars, frontVars>>

WebSessions == {"w1", "w2"}

Chats == {"b1", "b2"}

NoSession ==
  [has_order |-> FALSE, parsed_order |-> NoOrder, next_row |-> 0, rendered |-> FALSE]

NoChat ==
  [pending |-> FALSE, order |-> NoOrder,
   shipping_fee |-> [present |-> FALSE, value |-> 0],
   discount_amount |-> [present |-> FALSE, value |-> 0],
   buttons |-> FALSE,
   summary |-> [items |-> <<>>, shipping_fee |-> [present |-> FALSE, value |-> 0],
                discount_amount |-> [present |-> FALSE, value |-> 0], total |-> <<>>],
   breakdown |-> [items |-> <<>>, shipping_fee |-> [present |-> FALSE, value |-> 0],
                  discount_amount |-> [present |-> FALSE, value |-> 0], total |-> <<>>],
   inserts |-> 0, cancelled |-> FALSE, latest |-> NoOrder, replaced |-> NoOrder]

NoConfirm == [by |-> "", order |-> NoOrder, ok |-> FALSE, at |-> 0, retry |-> FALSE]

\* the front ends are not used
FrontIdle ==
  /\ web = [s \in WebSessions |-> NoSession]
  /\ bot = [c \in Chats |-> NoChat]
  /\ ledgerLog = {}
  /\ events = 0
  /\ lastConfirm = NoConfirm

NoOutcome == Raises("<pending>")

EmptySheet == [r \in Rows |-> EmptyRow]

NoWrite ==
  [method |-> "none", by |-> "", parsed_order |-> NoOrder, row_number |-> 0, sold_by |-> "",
   before |-> EmptySheet, result |-> FALSE]

\* the interpreter is not used
InterpIdle ==
  /\ pc = "Idle"
  /\ message = <<>>
  /\ client = FALSE
  /\ api = ApiRaises
  /\ fallbackAt = ""
  /\ outcome = NoOutcome
  /\ source = ""
  /\ oracleCalls = 0
  /\ requests = 0
  /\ prevSource = ""

\* the ledger is not used
LedgerIdle ==
  /\ sheet = EmptySheet
  /\ found = <<>>
  /\ lastWrite = NoWrite
  /\ writes = 0

InterpInit == InterpIdle /\ LedgerIdle /\ FrontIdle

\* a front end constructs OrderParser() and calls parse_order_with_claude(m)
Request(m, c) ==
  /\ pc = "Idle"
  /\ requests < MaxRequests
  /\ pc' = "TryOracle"
  /\ message' = m
  /\ client' = c
  /\ api' = ApiRaises
  /\ fallbackAt' = ""
  /\ outcome' = NoOutcome
  /\ source' = ""
  /\ oracleCalls' = 0
  /\ requests' = requests + 1
  /\ UNCHANGED prevSource
  /\ UNCHANGED <<ledgerVars, frontVars>>

\* parse_order_with_claude has returned or raised: the call's frame is gone
Return ==
  /\ pc = "Done"
  /\ pc' = "Idle"
  /\ message' = <<>>
  /\ client' = FALSE
  /\ api' = ApiRaises
  /\ fallbackAt' = ""
  /\ outcome' = NoOutcome
  /\ source' = ""
  /\ oracleCalls' = 0
  /\ prevSource' = source
  /\ UNCHANGED requests
  /\ UNCHANGED <<ledgerVars, frontVars>>

\* if not self.client: return self._basic_parse(message)
NoClient ==
  /\ pc = "TryOracle"
  /\ ~client
  /\ pc' = "Fallback"
  /\ fallbackAt' = "L141"
  /\ UNCHANGED <<message, client, api, outcome, source, oracleCalls, requests, prevSource>>
  /\ UNCHANGED <<ledgerVars, frontVars>>

\* OracleCallRaises calling the oracle again instead of falling back
OracleCallRaises_Retry ==
  /\ pc = "TryOracle"
  /\ client
  /\ oracleCalls' = oracleCalls + 1
  /\ api' = ApiRaises
  /\ IF oracleCalls < 2
       THEN UNCHANGED <<pc, fallbackAt>>
       ELSE pc' = "Fallback" /\ fallbackAt' = "L275"
  /\ UNCHANGED <<message, client, outcome, source, requests, prevSource>>
  /\ UNCHANGED <<ledgerVars, frontVars>>

\* self.client.messages.create(...) raises: the except clause of parse_order_with_claude
OracleCallRaises ==
  /\ pc = "TryOracle"
  /\ client
  /\ oracleCalls' = oracleCalls + 1
  /\ api' = ApiRaises
  /\ pc' = "Fallback"
  /\ fallbackAt' = "L275"
  /\ UNCHANGED <<message, client, outcome, source, requests, prevSource>>
  /\ UNCHANGED <<ledgerVars, frontVars>>

\* self.client.messages.create(...) returns a response
OracleCallReturns(response) ==
  /\ pc = "TryOracle"
  /\ client
  /\ oracleCalls' = oracleCalls + 1
  /\ api' = ApiReturns(response)
  /\ pc' = "Decode"
  /\ UNCHANGED <<message, client, fallbackAt, outcome, source, requests, prevSource>>
  /\ UNCHANGED <<ledgerVars, frontVars>>

\* _extract_and_validate_response up to its return statement
Extract ==
  /\ pc = "Decode"
  /\ LET branch == ExtractBranch(api.response, message)
     IN IF branch = "create"
          THEN /\ pc' = "Done"
               /\ outcome' = CreateOrderFromJson(JsonData(api.response), message)
               /\ source' = "oracle"
               /\ UNCHANGED fallbackAt
          ELSE /\ pc' = "Fallback"
               /\ fallbackAt' = IF branch = "else" THEN "L313" ELSE "L317"
               /\ UNCHANGED <<outcome, source>>
  /\ UNCHANGED <<message, client, api, oracleCalls, requests, prevSource>>
  /\ UNCHANGED <<ledgerVars, frontVars>>

\* the handler an exception raised by the _basic_parse call at a line reaches
Handler(line) ==
  CASE line = "L313" -> "L317"
    [] line = "L317" -> "L275"
    [] OTHER -> ""

\* a _basic_parse call returns, or raises into the enclosing except clause, or to the caller
FallbackParse ==
  /\ pc = "Fallback"
  /\ LET result == BasicParse(message)
     IN IF result.raised # "" /\ Handler(fallbackAt) # ""
          THEN /\ fallbackAt' = Handler(fallbackAt)
               /\ UNCHANGED <<pc, outcome, source>>
          ELSE /\ pc' = "Done"
               /\ outcome' = result
               /\ source' = "basic"
               /\ UNCHANGED fallbackAt
  /\ UNCHANGED <<message, client, api, oracleCalls, requests, prevSource>>
  /\ UNCHANGED <<ledgerVars, frontVars>>

InterpStep ==
  \/ NoClient
  \/ OracleCallRaises
  \/ \E response \in OracleResponses : OracleCallReturns(response)
  \/ Extract
  \/ FallbackParse

InterpNext ==
  \/ \E m \in InterpMessages, c \in BOOLEAN : Request(m, c)
  \/ InterpStep
  \/ Return

InterpSpec == InterpInit /\ [][InterpNext]_vars

(***************************************************************************)
(* The interpreter on order texts (ParseSpec): the requests of InterpSpec  *)
(* with longer messages, made of quantities, product codes and an alias,   *)
(* and a few of the spec's scenarios, and with a few oracle replies.       *)
(***************************************************************************)
\* the longest message, in tokens, made of the order vocabulary
MaxParseLen == 4

ParseVocab == {"0", "1", "2", "P-CHZ", "2l-bbq", "cheese"}

ScenarioMessages ==
  {<<"2", "P-CHZ", "and", "1", "2L-BBQ">>,
   <<"X-ZZZ", "5">>,
   <<"X-ZZZ", "5", "and", "2", "P-CHZ">>,
   <<"3", "P-OG", "taga", "paranaque", "bpi">>,
   <<"1", "x", "2l-sc", "from", "Ana", "QC", "gcash">>,
   <<"sour", "cream", "2", "bbq", "1">>}

\* the longest message, in tokens, made of the payment and location vocabulary
MaxDetectLen == 2

DetectVocab ==
  {"gcash", "bpi", "maya", "cash", "bdo", "bank", "g", "QC", "paranaque", "quezon", "city"}

DetectScenarios ==
  {<<"sa", "QC", "gcash">>, <<"paranaque", "quezon", "city">>, <<"pay", "maya", "gcash">>,
   <<"code", "P-CHZ", "2">>, <<"BPI", "GCash">>}

ParseMessages ==
  SeqsUpTo(ParseVocab, MaxParseLen) \cup ScenarioMessages
    \cup SeqsUpTo(DetectVocab, MaxDetectLen) \cup DetectScenarios

ParseResponses ==
  {Response(TRUE, "object", json) :
     json \in {JsonDict(AllKeys, "Ana", "Gcash", "Quezon City",
                        <<JsonItem("p-chz", "int", 2), JsonItem("2L-BBQ", "int", 1)>>),
               JsonDict(AllKeys, None, "Cash", "Paranaque",
                        <<JsonItem("P-SC", "int", -1), JsonItem("P-CHZ", "int", 0),
                          JsonItem("P-OG", "int", 3)>>),
               JsonDict(AllKeys, "Ana", "PayPal", "Makati", <<JsonItem("X-ZZZ", "int", 5)>>),
               JsonDict(AllKeys, None, None, None,
                        <<JsonItem("P-OG", "int", 3), JsonItem("P-CHZ", "str", 0)>>)}}

ParseNext ==
  \/ \E m \in ParseMessages, c \in BOOLEAN : Request(m, c)
  \/ NoClient
  \/ OracleCallRaises
  \/ \E response \in ParseResponses : OracleCallReturns(response)
  \/ Extract
  \/ FallbackParse
  \/ Return

ParseSpec == InterpInit /\ [][ParseNext]_vars

(***************************************************************************)
(* The ledger alone (LedgerSpec): from each ledger of InitSheets, calls of *)
(* find_next_available_row and of the three update methods with the       *)
(* arguments and the failures of LedgerInputs.                             *)
(***************************************************************************)
\* the calls of the update methods LedgerSpec follows
MaxWrites == 1

Cells(row, letters, text) ==
  [c \in 1..NumCols |-> IF \E l \in letters : ColNum(l) = c THEN text ELSE row[c]]

\* rows as an operator or an earlier order may have left them: with a name, a formula and
\* a note; with one product quantity and no name; with blanks, a zero and a formula only
NameRow == Cells(Cells(Cells(EmptyRow, {"D"}, "Ana"), {"F"}, "=G*2"), {"J"}, "note")

ProductRow == Cells(EmptyRow, {"V"}, "2")

JunkRow == Cells(Cells(Cells(EmptyRow, {"D"}, " "), {"N"}, "0"), {"F", "X"}, "=G*2")

RowKinds == {EmptyRow, NameRow, ProductRow}

\* the rows at the fallback row and around the end of the scanned range
TailKinds ==
  {[r \in {FallbackRow, ScanLimit, ScanLimit + 1} |-> EmptyRow],
   [r \in {FallbackRow, ScanLimit, ScanLimit + 1} |->
      IF r = FallbackRow THEN JunkRow ELSE NameRow]}

InitSheets ==
  {[r \in Rows |-> IF r = 1 THEN Cells(EmptyRow, {"D", "N"}, "header")
                   ELSE IF r \in 2..MaxRow THEN body[r] ELSE tail[r]] :
     body \in [2..MaxRow -> RowKinds], tail \in TailKinds}

LedgerMessages ==
  {<<"2", "P-CHZ", "from", "Maria", "gcash", "QC">>,
   <<"1", "P-SC", "5", "P-SC", "and", "0", "2l-og">>,
   <<"1", "2l-bbq", "0", "2l-bbq">>,
   <<"from", "Ben">>}

LedgerOrders == {BasicParse(m).order : m \in LedgerMessages}

\* the rows an update method is called with
TargetRows == {2, FallbackRow, ScanLimit + 1}

AllLetters == {Letters[i] : i \in 1..Len(Letters)}

LedgerInit ==
  /\ InterpIdle
  /\ sheet \in InitSheets
  /\ found = <<>>
  /\ lastWrite = NoWrite
  /\ writes = 0
  /\ FrontIdle

\* the last two of the results with a new one
Remember(results, result) ==
  IF Len(results) < 2 THEN Append(results, result) ELSE <<results[2], result>>

\* Find writing a placeholder name into the row it returns
Find_Reserves(scan) ==
  /\ found' = Remember(found, [row |-> FindNextAvailableRow(sheet, scan), scan |-> scan])
  /\ sheet' = IF FindNextAvailableRow(sheet, scan) \in Rows
                THEN UpdateCell(sheet, FindNextAvailableRow(sheet, scan), ColNum("D"),
                                StrValue("Reserved"))
                ELSE sheet
  /\ UNCHANGED <<lastWrite, writes>>
  /\ UNCHANGED <<interpVars, frontVars>>

\* sheets.find_next_available_row()
Find(scan) ==
  /\ found' = Remember(found, [row |-> FindNextAvailableRow(sheet, scan), scan |-> scan])
  /\ UNCHANGED <<sheet, lastWrite, writes>>
  /\ UNCHANGED <<interpVars, frontVars>>

\* the ledger after a call of an update method
Written(method, parsed_order, row_number, sold_by, update) ==
  /\ row_number \in Rows
  /\ sheet' = update.sheet
  /\ lastWrite' = [method |-> method, by |-> "", parsed_order |-> parsed_order,
                   row_number |-> row_number, sold_by |-> sold_by, before |-> sheet,
                   result |-> update.result]
  /\ writes' = writes + 1
  /\ found' = <<>>
  /\ UNCHANGED <<interpVars, frontVars>>

\* sheets.update_order_simple(parsed_order, row_number)
WriteSimple(parsed_order, row_number, connected, failing) ==
  /\ writes < MaxWrites
  /\ Written("simple", parsed_order, row_number, "",
             UpdateOrderSimple(sheet, parsed_order, row_number, connected, failing))

\* sheets.update_order_row(parsed_order, row_number, sold_by)
WriteRow(parsed_order, row_number, sold_by, connected, failing) ==
  /\ writes < MaxWrites
  /\ Written("row", parsed_order, row_number, sold_by,
             UpdateOrderRow(sheet, parsed_order, row_number, sold_by, connected, failing))

\* sheets.update_order_row_batch(parsed_order, row_number, sold_by)
WriteBatch(parsed_order, row_number, sold_by, connected, api_ok) ==
  /\ writes < MaxWrites
  /\ Written("batch", parsed_order, row_number, sold_by,
             UpdateOrderRowBatch(sheet, parsed_order, row_number, sold_by, connected, api_ok))

LedgerNext ==
  \/ \E scan \in {"ok", "raises"} : Find(scan)
  \/ \E o \in LedgerOrders, r \in TargetRows :
       \E f \in {<<TRUE, {}>>, <<TRUE, {"H"}>>, <<FALSE, {}>>} : WriteSimple(o, r, f[1], f[2])
  \/ \E o \in LedgerOrders, r \in TargetRows :
       \E f \in {<<"", TRUE, {}>>, <<"Nina", TRUE, {}>>, <<"Nina", TRUE, {"D"}>>,
                 <<"", TRUE, AllLetters>>, <<"", FALSE, {}>>} :
         WriteRow(o, r, f[1], f[2], f[3])
  \/ \E o \in LedgerOrders, r \in TargetRows :
       \E f \in {<<"", TRUE, TRUE>>, <<"Nina", TRUE, TRUE>>, <<"", TRUE, FALSE>>} :
         WriteBatch(o, r, f[1], f[2], f[3])

LedgerSpec == LedgerInit /\ [][LedgerNext]_vars

(***************************************************************************)
(* The front ends on one ledger (Spec): two browser sessions of the web    *)
(* app and one chat of the bot.  A run of the web script and a handler of  *)
(* the bot are one step each.  The bot's parser and ledger client          *)
(* (order_parser, sheets_client) are other modules of the repository;      *)
(* BotParseOrder, WriteRowFields and InsertOrder follow the description of *)
(* the Order Interpreter and the Ledger Reconciler.                        *)
(***************************************************************************)
\* the script runs and updates Spec follows
MaxEvents == 4

WebMessages ==
  {<<"2", "P-CHZ", "from", "Ana">>,
   <<"1", "2l-bbq", "from", "Ben">>,
   <<"from", "Cy">>}

\* what OrderParser() and the oracle are for a request: no client is configured
WebOracles == {<<FALSE, ApiRaises>>}

Header == Cells(EmptyRow, {"D", "N"}, "header")

SpecSheets ==
  {[r \in Rows |-> IF r = 1 THEN Header ELSE EmptyRow],
   [r \in Rows |-> IF r = 1 THEN Header ELSE IF r = 2 THEN NameRow ELSE EmptyRow]}

Init ==
  /\ InterpIdle
  /\ sheet \in SpecSheets
  /\ found = <<>>
  /\ lastWrite = NoWrite
  /\ writes = 0
  /\ FrontIdle

LogEntry(by, op, signal, row) == [by |-> by, op |-> op, signal |-> signal, row |-> row]

\* the record of a confirmation by a session on an order, with the ledger write's success
Confirmation(by, order, ok) ==
  [by |-> by, order |-> order, ok |-> ok, at |-> events + 1,
   retry |-> lastConfirm.by = by /\ ~lastConfirm.ok /\ lastConfirm.order = order]

\* the session state after the Process Order branch of main(): the row detection, then
\* the parse; a parse that raises ends the run with next_row set and parsed_order as
\* it was
Processed(session, next_row, parsed) ==
  IF parsed.raised # "" THEN [session EXCEPT !.next_row = next_row, !.rendered = FALSE]
  ELSE [session EXCEPT !.next_row = next_row, !.has_order = TRUE,
                       !.parsed_order = parsed.order,
                       !.rendered = parsed.order.items # <<>>]

\* Process Order, if it saved the order to the detected row at once
ProcessOrder_SavesAtOnce(s, message_input, custom_row, oracle, connected, scan) ==
  /\ events < MaxEvents
  /\ message_input # <<>>
  /\ \E next_row \in {IF ~connected THEN FallbackRow
                      ELSE IF custom_row # 0 THEN custom_row
                      ELSE FindNextAvailableRow(sheet, scan)},
        parsed \in {ParseOrderWithClaude(message_input, oracle[1], oracle[2])} :
       /\ web' = [web EXCEPT ![s] = Processed(web[s], next_row, parsed)]
       /\ next_row \in Rows
       /\ sheet' = UpdateOrderSimple(sheet, parsed.order, next_row, connected, {}).sheet
       /\ ledgerLog' = {LogEntry(s, "find", "process", next_row),
                        LogEntry(s, "write", "process", next_row)}
  /\ events' = events + 1
  /\ UNCHANGED <<bot, found, lastWrite, writes, lastConfirm>>
  /\ UNCHANGED interpVars

\* a run of main() in session s with Process Order clicked.  spreadsheet_id keeps its
\* default value; custom_row is the sidebar's override (0 when not checked); connected
\* and scan are the outcomes of sheets.connect and of the scan
ProcessOrder(s, message_input, custom_row, oracle, connected, scan) ==
  /\ events < MaxEvents
  /\ message_input # <<>>
  /\ \E next_row \in {IF ~connected THEN FallbackRow
                      ELSE IF custom_row # 0 THEN custom_row
                      ELSE FindNextAvailableRow(sheet, scan)} :
       /\ ledgerLog' = IF connected /\ custom_row = 0
                       THEN {LogEntry(s, "find", "process", next_row)}
                       ELSE {}
       /\ \E parsed \in {ParseOrderWithClaude(message_input, oracle[1], oracle[2])} :
            web' = [web EXCEPT ![s] = Processed(web[s], next_row, parsed)]
  /\ events' = events + 1
  /\ UNCHANGED <<bot, lastConfirm>>
  /\ UNCHANGED <<interpVars, ledgerVars>>

\* a run of main() in session s with no button clicked, or with Process Order clicked
\* and no message: the page is drawn again from the session state
Rerun(s) ==
  /\ events < MaxEvents
  /\ web' = [web EXCEPT ![s].rendered = web[s].has_order /\ web[s].parsed_order.items # <<>>]
  /\ ledgerLog' = {}
  /\ events' = events + 1
  /\ UNCHANGED <<bot, lastConfirm>>
  /\ UNCHANGED <<interpVars, ledgerVars>>

\* Update Google Sheet, if it scanned for the next open row again before writing
UpdateSheet_ScansAgain(s, connected, failing) ==
  /\ events < MaxEvents
  /\ web[s].rendered
  /\ web[s].has_order /\ web[s].parsed_order.items # <<>>
  /\ connected
  /\ \E target_row \in {FindNextAvailableRow(sheet, "ok")} :
       /\ target_row \in Rows
       /\ \E update \in {UpdateOrderSimple(sheet, web[s].parsed_order, target_row,
                                           TRUE, failing)} :
            /\ sheet' = update.sheet
            /\ lastWrite' = [method |-> "simple", by |-> s,
                             parsed_order |-> web[s].parsed_order,
                             row_number |-> target_row, sold_by |-> "",
                             before |-> sheet, result |-> update.result]
            /\ lastConfirm' = Confirmation(s, web[s].parsed_order, update.result)
       /\ writes' = writes + 1
       /\ ledgerLog' = {LogEntry(s, "write", "update", target_row)}
  /\ events' = events + 1
  /\ UNCHANGED <<web, bot, found>>
  /\ UNCHANGED interpVars

\* a run of main() in session s with Update Google Sheet clicked; connected and failing
\* are the outcomes of sheets.connect and of the update_cell calls
UpdateSheet(s, connected, failing) ==
  /\ events < MaxEvents
  /\ web[s].rendered
  /\ web[s].has_order /\ web[s].parsed_order.items # <<>>
  /\ \E target_row \in {IF web[s].next_row = 0 THEN FallbackRow ELSE web[s].next_row} :
       IF connected
       THEN /\ target_row \in Rows
            /\ \E update \in {UpdateOrderSimple(sheet, web[s].parsed_order, target_row,
                                                TRUE, failing)} :
                 /\ sheet' = update.sheet
                 /\ lastWrite' = [method |-> "simple", by |-> s,
                                  parsed_order |-> web[s].parsed_order,
                                  row_number |-> target_row, sold_by |-> "",
                                  before |-> sheet, result |-> update.result]
                 /\ lastConfirm' = Confirmation(s, web[s].parsed_order, update.result)
            /\ writes' = writes + 1
            /\ ledgerLog' = {LogEntry(s, "write", "update", target_row)}
       ELSE /\ ledgerLog' = {}
            /\ lastConfirm' = Confirmation(s, web[s].parsed_order, FALSE)
            /\ UNCHANGED <<sheet, lastWrite, writes>>
  /\ events' = events + 1
  /\ UNCHANGED <<web, bot, found>>
  /\ UNCHANGED interpVars

\* a value of the bot's parsed order that may be absent: parsed_order.get(key)
Amount(present, value) == [present |-> present, value |-> value]

NoAmount == Amount(FALSE, 0)

\* if parsed_order.get(key): the key is there and its value is not 0
Given(amount) == amount.present /\ amount.value # 0

\* self.products.get(product_code, {}).get('price', 0)
BotPrice(product_code) ==
  IF product_code \in DOMAIN PRODUCTS THEN PRODUCTS[product_code].price ELSE 0

\* parsed_order['items'] of the bot: product_code and quantity of each line
BotItems(order) ==
  [k \in 1..Len(order.items) |->
     [product_code |-> order.items[k].product.code, quantity |-> order.items[k].quantity]]

\* subtotal += quantity * price over parsed_order['items']
RECURSIVE Subtotal(_)
Subtotal(items) ==
  IF items = <<>> THEN 0
  ELSE Head(items).quantity * BotPrice(Head(items).product_code) + Subtotal(Tail(items))

\* the final total, if a negative result were shown as 0
FinalTotal_Clamped(items, shipping_fee, discount_amount) ==
  Max({0, Subtotal(items)
            + (IF Given(shipping_fee) THEN shipping_fee.value ELSE 0)
            - (IF Given(discount_amount) THEN discount_amount.value ELSE 0)})

\* final_total of _send_parsed_results_with_buttons and total of
\* _send_customer_breakdown_from_callback
FinalTotal(items, shipping_fee, discount_amount) ==
  Subtotal(items)
    + (IF Given(shipping_fee) THEN shipping_fee.value ELSE 0)
    - (IF Given(discount_amount) THEN discount_amount.value ELSE 0)

\* the digits of a natural number in groups of three, as the ',' format option writes them
RECURSIVE Groups(_)
Groups(n) == IF n < 1000 THEN <<n>> ELSE Groups(n \div 1000) \o <<n % 1000>>

\* f"{final_total}" of the summary: the sign and the digits in one run
SummaryText(final_total) ==
  [minus |-> final_total < 0,
   groups |-> <<IF final_total < 0 THEN -final_total ELSE final_total>>,
   cents |-> ""]

\* f"{total:,.2f}" for a whole number: the sign, the digits in groups of three, and the
\* decimals 00
Format2f(total) ==
  [minus |-> total < 0,
   groups |-> Groups(IF total < 0 THEN -total ELSE total),
   cents |-> "00"]

\* .replace('.00', ''): the only '.' of the text is the decimal point
RemoveZeroCents(text) == [text EXCEPT !.cents = IF @ = "00" THEN "" ELSE @]

\* f"Total - {total:,.2f}".replace('.00', '') of the breakdown
BreakdownText(total) == RemoveZeroCents(Format2f(total))

\* the summary of _send_parsed_results_with_buttons and of _update_confirmed_summary: the
\* text of its Final Total line, with what it was made of
Summary(items, shipping_fee, discount_amount) ==
  [items |-> items, shipping_fee |-> shipping_fee, discount_amount |-> discount_amount,
   total |-> <<SummaryText(FinalTotal(items, shipping_fee, discount_amount))>>]

\* the message of _send_customer_breakdown_from_callback: the text of its Total line, with
\* what it was made of
Breakdown(items, shipping_fee, discount_amount) ==
  [items |-> items, shipping_fee |-> shipping_fee, discount_amount |-> discount_amount,
   total |-> <<BreakdownText(FinalTotal(items, shipping_fee, discount_amount))>>]

\* self.parser.parse_order(user_message)
BotParseOrder(user_message, oracle) == ParseOrderWithClaude(user_message, oracle[1], oracle[2])

\* HandleOrder, if a pending order were kept when another message is parsed
HandleOrder_KeepsPending(c, user_message, oracle, shipping_fee, discount_amount, sent) ==
  /\ events < MaxEvents
  /\ \E parsed \in {BotParseOrder(user_message, oracle)} :
       bot' = IF parsed.raised # "" THEN bot
              ELSE [bot EXCEPT ![c] =
                      [pending |-> TRUE,
                       order |-> IF bot[c].pending THEN bot[c].order ELSE parsed.order,
                       shipping_fee |-> shipping_fee, discount_amount |-> discount_amount,
                       buttons |-> bot[c].buttons \/ sent,
                       summary |-> IF sent
                                   THEN Summary(BotItems(parsed.order), shipping_fee,
                                                discount_amount)
                                   ELSE bot[c].summary,
                       breakdown |-> bot[c].breakdown,
                       inserts |-> 0, cancelled |-> FALSE,
                       latest |-> parsed.order,
                       replaced |-> IF bot[c].pending THEN bot[c].order ELSE NoOrder]]
  /\ ledgerLog' = {}
  /\ events' = events + 1
  /\ UNCHANGED <<web, lastConfirm>>
  /\ UNCHANGED <<interpVars, ledgerVars>>

\* handle_order in chat c; shipping_fee and discount_amount are what the parser found of
\* them, sent tells whether the summary with the buttons was sent
HandleOrder(c, user_message, oracle, shipping_fee, discount_amount, sent) ==
  /\ events < MaxEvents
  /\ \E parsed \in {BotParseOrder(user_message, oracle)} :
       bot' = IF parsed.raised # "" THEN bot
              ELSE [bot EXCEPT ![c] =
                      [pending |-> TRUE, order |-> parsed.order,
                       shipping_fee |-> shipping_fee, discount_amount |-> discount_amount,
                       buttons |-> bot[c].buttons \/ sent,
                       summary |-> IF sent
                                   THEN Summary(BotItems(parsed.order), shipping_fee,
                                                discount_amount)
                                   ELSE bot[c].summary,
                       breakdown |-> bot[c].breakdown,
                       inserts |-> 0, cancelled |-> FALSE,
                       latest |-> parsed.order,
                       replaced |-> IF bot[c].pending THEN bot[c].order ELSE NoOrder]]
  /\ ledgerLog' = {}
  /\ events' = events + 1
  /\ UNCHANGED <<web, lastConfirm>>
  /\ UNCHANGED <<interpVars, ledgerVars>>

\* write_row(row, order, seller): the fields of the order, cell by cell
WriteRowFields(sh, row, order) ==
  CellsUntil(sh, row,
             WithProducts(
               <<[key |-> "C", value |-> StrValue(Today)],
                 [key |-> "D", value |-> StrValue(OrElse(order.customer_name, "Unknown"))],
                 [key |-> "E", value |-> StrValue(order.auto_sold_by)],
                 [key |-> "H", value |-> StrValue("Unpaid")],
                 [key |-> "G", value |-> StrValue(order.payment_method)]>>,
               order.items),
             {})

\* self.sheets_client.insert_order(parsed_order): the next open row, then the write
InsertOrder(sh, order, scan, insert) ==
  LET row == FindNextAvailableRow(sh, scan)
  IN [row |-> row,
      wrote |-> insert = "ok" /\ row \in Rows,
      sheet |-> IF insert = "ok" /\ row \in Rows THEN WriteRowFields(sh, row, order) ELSE sh,
      raised |-> insert = "raises",
      result |-> insert = "ok" /\ row \in Rows]

\* the chat after handle_confirmation went past insert_order: _update_confirmed_summary and
\* _send_customer_breakdown_from_callback, then the pop; when one of the two raises (not
\* sent) the pop is not reached
Confirmed(chat, sent) ==
  IF sent
  THEN [chat EXCEPT !.pending = FALSE, !.order = NoOrder,
                    !.shipping_fee = NoAmount, !.discount_amount = NoAmount,
                    !.summary = Summary(BotItems(chat.order), chat.shipping_fee,
                                        chat.discount_amount),
                    !.breakdown = Breakdown(BotItems(chat.order), chat.shipping_fee,
                                            chat.discount_amount),
                    !.inserts = chat.inserts + 1]
  ELSE [chat EXCEPT !.inserts = chat.inserts + 1]

\* the chat with the pending order popped
Popped(chat) ==
  [chat EXCEPT !.pending = FALSE, !.order = NoOrder,
               !.shipping_fee = NoAmount, !.discount_amount = NoAmount]

\* ConfirmOrder, if it cleared the pending order when insert_order fails
ConfirmOrder_ClearsOnFailure(c, scan, insert, sent) ==
  /\ events < MaxEvents
  /\ bot[c].buttons
  /\ IF ~bot[c].pending
     THEN /\ ledgerLog' = {}
          /\ UNCHANGED <<bot, sheet, lastWrite, writes, lastConfirm>>
     ELSE \E inserted \in {InsertOrder(sheet, bot[c].order, scan, insert)} :
            /\ lastConfirm' = Confirmation(c, bot[c].order,
                                           inserted.result /\ ~inserted.raised)
            /\ bot' = IF inserted.result /\ ~inserted.raised
                      THEN [bot EXCEPT ![c] = Confirmed(bot[c], sent)]
                      ELSE IF ~inserted.result
                        THEN [bot EXCEPT ![c] = Popped(bot[c])]
                        ELSE bot
            /\ IF inserted.wrote
                 THEN /\ sheet' = inserted.sheet
                      /\ lastWrite' = [method |-> "insert", by |-> c,
                                       parsed_order |-> bot[c].order,
                                       row_number |-> inserted.row, sold_by |-> "",
                                       before |-> sheet, result |-> inserted.result]
                      /\ writes' = writes + 1
                 ELSE UNCHANGED <<sheet, lastWrite, writes>>
            /\ ledgerLog' = {LogEntry(c, "find", "confirm_order", inserted.row)}
                              \cup (IF inserted.wrote
                                    THEN {LogEntry(c, "write", "confirm_order", inserted.row)}
                                    ELSE {})
  /\ events' = events + 1
  /\ UNCHANGED <<web, found>>
  /\ UNCHANGED interpVars

\* handle_confirmation in chat c with query.data = "confirm_order"; insert is what
\* insert_order does ("ok", "fails", "raises"), sent whether the messages after it were
\* sent
ConfirmOrder(c, scan, insert, sent) ==
  /\ events < MaxEvents
  /\ bot[c].buttons
  /\ IF ~bot[c].pending
     THEN /\ ledgerLog' = {}
          /\ UNCHANGED <<bot, sheet, lastWrite, writes, lastConfirm>>
     ELSE \E inserted \in {InsertOrder(sheet, bot[c].order, scan, insert)} :
            /\ lastConfirm' = Confirmation(c, bot[c].order,
                                           inserted.result /\ ~inserted.raised)
            /\ bot' = IF inserted.result /\ ~inserted.raised
                      THEN [bot EXCEPT ![c] = Confirmed(bot[c], sent)]
                      ELSE bot
            /\ IF inserted.wrote
                 THEN /\ sheet' = inserted.sheet
                      /\ lastWrite' = [method |-> "insert", by |-> c,
                                       parsed_order |-> bot[c].order,
                                       row_number |-> inserted.row, sold_by |-> "",
                                       before |-> sheet, result |-> inserted.result]
                      /\ writes' = writes + 1
                 ELSE UNCHANGED <<sheet, lastWrite, writes>>
            /\ ledgerLog' = {LogEntry(c, "find", "confirm_order", inserted.row)}
                              \cup (IF inserted.wrote
                                    THEN {LogEntry(c, "write", "confirm_order", inserted.row)}
                                    ELSE {})
  /\ events' = events + 1
  /\ UNCHANGED <<web, found>>
  /\ UNCHANGED interpVars

\* handle_confirmation in chat c with query.data = "cancel_order"
CancelOrder(c) ==
  /\ events < MaxEvents
  /\ bot[c].buttons
  /\ bot' = [bot EXCEPT ![c] = [Popped(bot[c]) EXCEPT !.cancelled = TRUE]]
  /\ ledgerLog' = {}
  /\ events' = events + 1
  /\ UNCHANGED <<web, lastConfirm>>
  /\ UNCHANGED <<interpVars, ledgerVars>>

\* the chat Spec follows next to the two browser sessions
SpecChats == {"b1"}

Next ==
  \/ \E s \in WebSessions, m \in WebMessages, oracle \in WebOracles,
        ledger \in {<<0, TRUE, "ok">>, <<0, FALSE, "ok">>, <<2, TRUE, "ok">>} :
       ProcessOrder(s, m, ledger[1], oracle, ledger[2], ledger[3])
  \/ \E s \in WebSessions : Rerun(s)
  \/ \E s \in WebSessions, cells \in {<<TRUE, {}>>, <<TRUE, {"H"}>>, <<FALSE, {}>>} :
       UpdateSheet(s, cells[1], cells[2])
  \/ \E c \in SpecChats, m \in WebMessages, oracle \in WebOracles, sent \in BOOLEAN :
       HandleOrder(c, m, oracle, NoAmount, NoAmount, sent)
  \/ \E c \in SpecChats, ledger \in {<<"ok", "ok">>, <<"raises", "ok">>, <<"ok", "fails">>,
                                 <<"ok", "raises">>}, sent \in BOOLEAN :
       ConfirmOrder(c, ledger[1], ledger[2], sent)
  \/ \E c \in SpecChats : CancelOrder(c)

Spec == Init /\ [][Next]_vars

(***************************************************************************)
(* One browser session detecting its row on any ledger (RowSpec).          *)
(***************************************************************************)
\* what a run with Process Order meets: <<the sidebar's row override (0 when not
\* checked), the outcome of sheets.connect, the outcome of the scan>>
ProcessLedgers ==
  {<<0, TRUE, "ok">>, <<0, TRUE, "raises">>, <<2, TRUE, "ok">>, <<0, FALSE, "ok">>,
   <<2, FALSE, "ok">>}

\* the session RowSpec follows
RowSessions == {"w1"}

RowNext ==
  \/ \E s \in RowSessions, m \in WebMessages, oracle \in WebOracles, ledger \in ProcessLedgers :
       ProcessOrder(s, m, ledger[1], oracle, ledger[2], ledger[3])
  \/ \E s \in RowSessions : Rerun(s)

RowSpec == LedgerInit /\ [][RowNext]_vars

(***************************************************************************)
(* The bot alone on the ledger (BotSpec): two chats, and orders that carry *)
(* a shipping fee and a discount.                                          *)
(***************************************************************************)
\* the messages the chats send, with what the bot's parser found of the shipping fee
\* and of the discount amount
BotOrders ==
  {<<<<"2", "P-CHZ", "from", "Ana">>, Amount(TRUE, 1000), Amount(TRUE, 50)>>,
   <<<<"1", "2l-bbq", "from", "Ben">>, Amount(TRUE, 0), NoAmount>>,
   <<<<"1", "2l-bbq", "from", "Ben">>, NoAmount, Amount(TRUE, 1000)>>,
   <<<<"from", "Cy">>, NoAmount, NoAmount>>}

BotNext ==
  \/ \E c \in Chats, o \in BotOrders, oracle \in WebOracles, sent \in BOOLEAN :
       HandleOrder(c, o[1], oracle, o[2], o[3], sent)
  \/ \E c \in Chats, ledger \in {<<"ok", "ok">>, <<"raises", "ok">>, <<"ok", "fails">>,
                                 <<"ok", "raises">>}, sent \in BOOLEAN :
       ConfirmOrder(c, ledger[1], ledger[2], sent)
  \/ \E c \in Chats : CancelOrder(c)

BotSpec == Init /\ [][BotNext]_vars

(***************************************************************************)
(* Properties of the interpreter (InterpSpec).                             *)
(***************************************************************************)
\* the reply cannot be decoded: no text, no strategy finds JSON, or the JSON found is
\* no object with an items key
ReplyUndecodable(response) ==
  \/ ~response.has_content
  \/ response.shape \in {"two_objects", "truncated", "no_json"}
  \/ response.json.type # "dict"
  \/ "items" \notin response.json.keys

\* the exceptions of the oracle call and of the decoding of its reply
OracleErrors == {"APIError", "IndexError", "TypeError", "AttributeError", "JSONDecodeError"}

\* C1: when no client is configured, or the oracle call raises, or its reply cannot be
\* decoded, the request ends with exactly what _basic_parse gives for the same text, and
\* what reaches the caller is no error of the oracle call or of the decoding.
C1_FallbackIsBasicParse ==
  (pc = "Done" /\ (~client \/ api.raises \/ ReplyUndecodable(api.response)))
    => /\ outcome = BasicParse(message)
       /\ source = "basic"
       /\ outcome.raised \notin OracleErrors

\* a request that fell back after the oracle call raised and got an order with lines
C1_Witness ==
  /\ pc = "Done" /\ client /\ api.raises /\ oracleCalls = 1
  /\ outcome.raised = "" /\ outcome.order.items # <<>>

\* validation drops the item without raising
ItemDropped(item_data) ==
  /\ item_data.product_code # None
  /\ \/ Upper(item_data.product_code) \notin DOMAIN PRODUCTS
     \/ item_data.qtype = "int" /\ item_data.quantity <= 0

\* the reply decodes to an object whose items list is empty or is emptied by validation
OracleItemsEmpty(response) ==
  /\ ~ReplyUndecodable(response)
  /\ ~response.json.items_null
  /\ \A k \in 1..Len(response.json.items) : ItemDropped(response.json.items[k])

\* C2 as stated: an oracle result with an empty item list makes the interpreter return
\* _basic_parse's result for the same text.
C2_EmptyItemsFallBack ==
  (pc = "Done" /\ client /\ ~api.raises /\ OracleItemsEmpty(api.response))
    => outcome = BasicParse(message)

\* C2 as amended: an oracle reply that decodes to an object with an items key is not a
\* failure when its item list is empty or validation drops every item: the interpreter
\* returns the oracle's order, with no lines and total 0 and the reply's customer name,
\* payment method and location, and _basic_parse is not consulted.
C2_EmptyItemsReturned ==
  (pc = "Done" /\ client /\ ~api.raises /\ OracleItemsEmpty(api.response))
    => /\ source = "oracle"
       /\ outcome.raised = ""
       /\ outcome.order.items = <<>>
       /\ outcome.order.total_amount = 0
       /\ outcome.order.customer_name = Get(api.response.json, "customer_name")
       /\ outcome.order.payment_method = Get(api.response.json, "payment_method")
       /\ outcome.order.customer_location = Get(api.response.json, "customer_location")

\* the oracle's empty order was returned for a text in which _basic_parse finds lines
C2_Witness ==
  /\ pc = "Done" /\ client /\ ~api.raises /\ OracleItemsEmpty(api.response)
  /\ Len(api.response.json.items) > 0
  /\ outcome.order.items = <<>>
  /\ BasicParse(message).raised = "" /\ BasicParse(message).order.items # <<>>

\* the steps a request is from its end
Rank ==
  CASE pc = "TryOracle" -> 5
    [] pc = "Decode" -> 4
    [] pc = "Fallback" /\ fallbackAt = "L313" -> 3
    [] pc = "Fallback" /\ fallbackAt = "L317" -> 2
    [] pc = "Fallback" -> 1
    [] OTHER -> 0

InRequest == pc \in {"TryOracle", "Decode", "Fallback"}

\* C3: in one request the oracle is called at most once; from Fallback the request goes
\* only to its end, never back to TryOracle; every request ends (each step brings it
\* nearer its end and a step is always possible) with a result of the oracle or of
\* _basic_parse; and a request begins in TryOracle with no call made, whatever the
\* request before it ended with.
C3_OracleOnceNoRetry ==
  /\ [](oracleCalls <= 1)
  /\ [][pc = "Fallback" => pc' \in {"Fallback", "Done"} /\ oracleCalls' = oracleCalls]_vars
  /\ [][InRequest => Rank' < Rank]_vars
  /\ [](InRequest => ENABLED InterpStep)
  /\ [](pc = "Done" => source \in {"oracle", "basic"} /\ outcome # NoOutcome)
  /\ [][requests' # requests => pc' = "TryOracle" /\ oracleCalls' = 0 /\ fallbackAt' = ""]_vars
  /\ [](pc = "Idle" /\ requests < MaxRequests
          => \A c \in BOOLEAN : ENABLED Request(<<>>, c))

\* a second request in TryOracle after the first one fell back
C3_Witness == pc = "TryOracle" /\ requests = 2 /\ prevSource = "basic" /\ client /\ oracleCalls = 0

\* C4 as stated: _basic_parse never fails: whatever the text, the request it serves ends
\* with an order returned, not with an exception raised.
C4_BasicParseNeverRaises ==
  (pc = "Done" /\ source = "basic") => outcome.raised = ""

(***************************************************************************)
(* Properties of the ledger (LedgerSpec).                                  *)
(***************************************************************************)
Cell(sh, r, letter) == sh[r][ColNum(letter)]

Blank(text) == text \in {"", " "}

ProductLetters == {"N", "O", "P", "Q", "T", "U", "V", "W"}

\* the row holds a name, or a product quantity that is not 0
Occupied(sh, r) ==
  \/ ~Blank(Cell(sh, r, "D"))
  \/ \E l \in ProductLetters : ~Blank(Cell(sh, r, l)) /\ Cell(sh, r, l) # "0"

\* the highest occupied row among the rows rs, the header row if there is none
HighestOccupied(sh, rs) == Max({1} \cup {r \in rs : r # 1 /\ Occupied(sh, r)})

\* C7 as stated: on every ledger on which the scan succeeds, find_next_available_row
\* returns one plus the highest occupied row of the ledger, the header row excluded.
C7_FindReturnsPastHighest ==
  \A i \in 1..Len(found) :
    found[i].scan = "ok" => found[i].row = HighestOccupied(sheet, Rows) + 1

CodesOf(parsed_order) ==
  {parsed_order.items[k].product.code : k \in 1..Len(parsed_order.items)}

\* the quantity of the last line of the order with the code
LastQuantity(parsed_order, code) ==
  LET k == Max({j \in 1..Len(parsed_order.items) : parsed_order.items[j].product.code = code})
  IN parsed_order.items[k].quantity

\* the fixed table from product codes to ledger columns
FixedColumn ==
  ("P-CHZ" :> "N") @@ ("P-SC" :> "O") @@ ("P-BBQ" :> "P") @@ ("P-OG" :> "Q") @@
  ("2L-CHZ" :> "T") @@ ("2L-SC" :> "U") @@ ("2L-BBQ" :> "V") @@ ("2L-OG" :> "W")

\* the columns for which the last write carries a value that is not blank
Carried ==
  {"C", "D", "H"}
  \cup (IF lastWrite.method = "simple" THEN {"J", "K"} ELSE {})
  \cup (IF lastWrite.method = "simple" /\ lastWrite.parsed_order.auto_sold_by # None
        THEN {"E"} ELSE {})
  \cup (IF lastWrite.method # "simple" /\ lastWrite.sold_by # "" THEN {"E"} ELSE {})
  \cup (IF lastWrite.method = "simple" /\ lastWrite.parsed_order.payment_method # None
        THEN {"G"} ELSE {})
  \cup {FixedColumn[code] : code \in CodesOf(lastWrite.parsed_order)}

\* the cells the last write changed, as <<row, column number>>
Changed ==
  {rc \in Rows \X (1..NumCols) : sheet[rc[1]][rc[2]] # lastWrite.before[rc[1]][rc[2]]}

\* C9 as stated: every update method is cell-level: after a write to a row, each cell of
\* the row in a column for which the write carries no value holds what it held before,
\* and no other row is changed.
C9_WritesAreCellLevel ==
  lastWrite.method # "none"
    => \A rc \in Changed :
         rc[1] = lastWrite.row_number /\ \E l \in Carried : ColNum(l) = rc[2]

SellerOf(write) == IF write.method = "simple" THEN write.parsed_order.auto_sold_by ELSE write.sold_by

\* the cell a field of the last write must leave: its value, or what the cell held when
\* there is no value
FieldCell(letter, value) ==
  IF value \in {None, ""} THEN Cell(lastWrite.before, lastWrite.row_number, letter) ELSE value

\* C11 as stated: after every write that reports success, H holds "Unpaid", D the
\* customer name or "Unknown", G the payment method if one was detected and what it
\* held otherwise, E the seller if one was assigned and what it held otherwise.
C11_WrittenFields ==
  lastWrite.method # "none" /\ lastWrite.result
    => /\ Cell(sheet, lastWrite.row_number, "H") = "Unpaid"
       /\ Cell(sheet, lastWrite.row_number, "D")
            = OrElse(lastWrite.parsed_order.customer_name, "Unknown")
       /\ Cell(sheet, lastWrite.row_number, "G")
            = FieldCell("G", lastWrite.parsed_order.payment_method)
       /\ Cell(sheet, lastWrite.row_number, "E") = FieldCell("E", SellerOf(lastWrite))

\* the text the last write carries for a column of Carried
ValueCarried(letter) ==
  CASE letter = "C" -> Today
    [] letter = "D" -> OrElse(lastWrite.parsed_order.customer_name, "Unknown")
    [] letter = "E" -> SellerOf(lastWrite)
    [] letter = "G" -> lastWrite.parsed_order.payment_method
    [] letter = "H" -> "Unpaid"
    [] letter = "J" -> "<robot>"
    [] letter = "K" -> "Reserved"
    [] OTHER -> StrOf[LastQuantity(lastWrite.parsed_order,
                                   CHOOSE code \in CodesOf(lastWrite.parsed_order) :
                                     FixedColumn[code] = letter)]

\* the columns of the last write whose cell update was made, and those whose update was
\* not (a quantity of 0 is no update)
CellsWritten ==
  {l \in Carried : ValueCarried(l) # "0"
                   /\ Cell(sheet, lastWrite.row_number, l) = ValueCarried(l)}

CellsFailed ==
  {l \in Carried : ValueCarried(l) # "0"
                   /\ Cell(sheet, lastWrite.row_number, l) # ValueCarried(l)}

\* C12 as stated: a write of which some cell updates were made and at least one was not
\* reports failure (False) to the caller; the cells written keep their new values.
C12_PartialWriteIsFailure ==
  lastWrite.method # "none" /\ CellsWritten # {} /\ CellsFailed # {} => ~lastWrite.result

(***************************************************************************)
(* Properties of the front ends (Spec).                                    *)
(***************************************************************************)
\* the signals that confirm an order: the Update Google Sheet button of the web app and
\* the confirm_order callback of the bot
ConfirmSignals == {"update", "confirm_order"}

\* C5 as stated: in both front ends no ledger operation, neither the scan for the next
\* open row nor a write, is invoked before the front end received the confirm signal
\* for the order.
C5_NoLedgerOpBeforeConfirm ==
  \A e \in ledgerLog : e.signal \in ConfirmSignals

\* C5, amended: in both front ends no write is invoked, and the ledger does not change,
\* before the front end received the confirm signal for the order, and the bot invokes
\* no ledger operation before it; the scan for the next open row is what the web app
\* does invoke when Process Order is clicked.
C5_NoWriteBeforeConfirm ==
  [][/\ \A e \in ledgerLog' :
          /\ e.op = "write" => e.signal \in ConfirmSignals
          /\ e.by \in Chats => e.signal \in ConfirmSignals
          /\ e.signal \notin ConfirmSignals => e.op = "find" /\ e.by \in WebSessions
     /\ sheet' # sheet =>
          \E e \in ledgerLog' : e.op = "write" /\ e.signal \in ConfirmSignals]_vars

\* the bot wrote an order on confirm_order, while a web session that parsed an order
\* and detected its row shows the button, with nothing of that order on the ledger
C5_Witness ==
  /\ \E e \in ledgerLog : e.op = "write" /\ e.by \in Chats
  /\ \E s \in WebSessions :
       /\ web[s].rendered
       /\ web[s].next_row \in 2..MaxRow
       /\ \A r \in Rows : Cell(sheet, r, "D") # web[s].parsed_order.customer_name

\* the row a session of the web app writes to
TargetRow(s) == IF web[s].next_row = 0 THEN FallbackRow ELSE web[s].next_row

\* C6: the write goes to the row the session found when the order was processed,
\* whatever the row holds by then: nothing scans again or reserves the row, so two
\* sessions that found the same row both write to it and the second overwrites the first.
C6_WriteToStoredRow ==
  [][\A e \in ledgerLog' :
       e.op = "write" /\ e.by \in WebSessions =>
         /\ lastWrite'.by = e.by
         /\ lastWrite'.row_number = TargetRow(e.by)
         /\ e.row = TargetRow(e.by)
         /\ Cell(sheet', e.row, "D")
              = OrElse(web[e.by].parsed_order.customer_name, "Unknown")]_vars

\* both sessions hold the same row, both wrote to it, and the name of the first order
\* is gone from it
C6_Witness ==
  \E s, t \in WebSessions :
    /\ s # t
    /\ web[s].next_row = web[t].next_row
    /\ web[s].next_row \in 2..MaxRow
    /\ lastWrite.by = t /\ lastWrite.row_number = web[t].next_row
    /\ Cell(lastWrite.before, lastWrite.row_number, "D") = web[s].parsed_order.customer_name
    /\ Cell(lastWrite.before, lastWrite.row_number, "N") = "2"
    /\ Cell(sheet, lastWrite.row_number, "D") = web[t].parsed_order.customer_name
    /\ Cell(sheet, lastWrite.row_number, "D") # Cell(lastWrite.before, lastWrite.row_number, "D")
    /\ Cell(sheet, lastWrite.row_number, "N") = "2"
    /\ Cell(sheet, lastWrite.row_number, "V") = "1"

\* C13: a confirmation whose ledger connection or write fails leaves the session as it
\* was, with the order still pending (the parsed order and the button in the web app,
\* pending_order in the bot), and a confirmation writes the order the session holds: the
\* next confirm in the session attempts the same order.
C13_FailedConfirmKeepsOrder ==
  [][/\ lastConfirm'.at = events' /\ lastConfirm'.by \in WebSessions =>
          /\ lastConfirm'.order = web[lastConfirm'.by].parsed_order
          /\ ~lastConfirm'.ok =>
               /\ web'[lastConfirm'.by] = web[lastConfirm'.by]
               /\ web'[lastConfirm'.by].has_order /\ web'[lastConfirm'.by].rendered
     /\ lastConfirm'.at = events' /\ lastConfirm'.by \in Chats =>
          /\ lastConfirm'.order = bot[lastConfirm'.by].order
          /\ ~lastConfirm'.ok =>
               /\ bot'[lastConfirm'.by] = bot[lastConfirm'.by]
               /\ bot'[lastConfirm'.by].pending
     /\ \A e \in ledgerLog' :
          e.op = "write" /\ lastWrite'.result =>
            lastConfirm'.at = events' /\ lastConfirm'.by = e.by
            /\ lastWrite'.parsed_order = lastConfirm'.order]_vars

\* a confirmation in the bot that wrote the order after the chat's confirmation before
\* it had failed on the same order
C13_Witness ==
  /\ lastConfirm.by \in Chats /\ lastConfirm.ok /\ lastConfirm.retry
  /\ lastWrite.by = lastConfirm.by /\ lastWrite.result
  /\ lastWrite.parsed_order = lastConfirm.order
  /\ lastConfirm.order.items # <<>>

(***************************************************************************)
(* Properties of the orders the interpreter returns (ParseSpec).           *)
(***************************************************************************)
\* a request has returned an order
Returned == pc = "Done" /\ outcome.raised = ""

\* C14: for every order returned, by the oracle path or by _basic_parse, the seller is
\* "Ferdie" iff the location is "Quezon City", "Nina" iff it is "Paranaque", and absent
\* otherwise: one mapping from the location for both paths.
C14_SellerFollowsLocation ==
  Returned =>
    /\ outcome.order.auto_sold_by = "Ferdie" <=> outcome.order.customer_location = "Quezon City"
    /\ outcome.order.auto_sold_by = "Nina" <=> outcome.order.customer_location = "Paranaque"
    /\ outcome.order.customer_location \notin {"Quezon City", "Paranaque"}
         => outcome.order.auto_sold_by = None
    /\ outcome.order.auto_sold_by \in {"Ferdie", "Nina", None}

\* _basic_parse returned an order located in Paranaque with seller Nina, after the
\* oracle path served the request before
C14_Witness ==
  /\ Returned /\ source = "basic" /\ prevSource = "oracle"
  /\ outcome.order.customer_location = "Paranaque" /\ outcome.order.auto_sold_by = "Nina"

\* C15 as stated: every line of every order returned, by either path, has a quantity
\* that is a positive integer.
C15_QuantitiesPositive ==
  Returned => \A k \in 1..Len(outcome.order.items) : outcome.order.items[k].quantity > 0

\* the items of a reply that are valid: a catalog code and a positive integer quantity
RECURSIVE ValidItems(_)
ValidItems(items) ==
  IF items = <<>> THEN <<>>
  ELSE (IF /\ Head(items).product_code # None
           /\ Upper(Head(items).product_code) \in DOMAIN PRODUCTS
           /\ Head(items).qtype = "int" /\ Head(items).quantity > 0
          THEN <<OrderItem(PRODUCTS[Upper(Head(items).product_code)], Head(items).quantity)>>
          ELSE <<>>)
       \o ValidItems(Tail(items))

\* the request in progress got a reply that is a JSON object with a list of items
RepliedWithItems ==
  /\ oracleCalls = 1 /\ ~api.raises /\ api.response.has_content
  /\ api.response.shape = "object" /\ api.response.json.type = "dict"
  /\ "items" \in api.response.json.keys /\ ~api.response.json.items_null

\* C16 as stated: an invalid item or mention is never fatal: the order returned for a
\* reply with items holds exactly the reply's valid items, and the text "X-ZZZ 5" gives
\* an order with no lines, an unknown code beside a valid mention only the valid line.
C16_InvalidItemOnlyDropped ==
  pc = "Done" =>
    /\ outcome.raised = ""
    /\ RepliedWithItems => outcome.order.items = ValidItems(api.response.json.items)
    /\ source = "basic" /\ message = <<"X-ZZZ", "5">> => outcome.order.items = <<>>
    /\ source = "basic" /\ message = <<"X-ZZZ", "5", "and", "2", "P-CHZ">>
         => outcome.order.items = <<OrderItem(PRODUCTS["P-CHZ"], 2)>>

\* C17 as stated: the payment method of every order returned is one of the six methods
\* or absent, and the location one of the two locations or absent.
C17_ClosedSets ==
  Returned =>
    /\ outcome.order.payment_method \in {"Gcash", "BPI", "Maya", "Cash", "BDO", "Others", None}
    /\ outcome.order.customer_location \in {"Quezon City", "Paranaque", None}

\* the sum of quantity * unit_price over the items of an export record
RECURSIVE SumOfLines(_)
SumOfLines(lines) ==
  IF lines = <<>> THEN 0
  ELSE Head(lines).quantity * Head(lines).unit_price + SumOfLines(Tail(lines))

\* C18: the total of every order returned is the sum over its lines of quantity times
\* the catalog price of the line's code, and the total recomputed from the items of the
\* export record is the order's total.
C18_TotalIsSumOfLines ==
  Returned =>
    /\ \A k \in 1..Len(outcome.order.items) :
         OrderData(outcome.order).items[k].unit_price
           = PRODUCTS[OrderData(outcome.order).items[k].product_code].price
    /\ SumOfLines(OrderData(outcome.order).items) = outcome.order.total_amount
    /\ OrderData(outcome.order).total_amount = outcome.order.total_amount

\* the scenario "2 P-CHZ and 1 2L-BBQ" returned with total 590
C18_Witness ==
  /\ Returned /\ message = <<"2", "P-CHZ", "and", "1", "2L-BBQ">>
  /\ Len(outcome.order.items) = 2
  /\ outcome.order.total_amount = 590
  /\ SumOfLines(OrderData(outcome.order).items) = 590

\* a mention: a quantity then a code or an alias, or a code or an alias then a quantity
Mention(tokens, code, quantity) == [tokens |-> tokens, code |-> code, quantity |-> quantity]

\* the recognized mentions with a positive quantity a text of ParseVocab can hold; the
\* alias cheese with no size cue is the pouch
Mentions ==
  UNION {{Mention(<<q, w[1]>>, w[2], IntOf[q]), Mention(<<w[1], q>>, w[2], IntOf[q])} :
           q \in {"1", "2"},
           w \in {<<"P-CHZ", "P-CHZ">>, <<"2l-bbq", "2L-BBQ">>, <<"cheese", "P-CHZ">>}}

\* the ways to read a text as one or two mentions, one after the other
Readings(text) ==
  {<<a>> : a \in {a \in Mentions : a.tokens = text}}
    \cup {r \in {<<a, b>> : a \in Mentions, b \in Mentions} :
            r[1].tokens \o r[2].tokens = text}

\* the lines of a reading, in the order of the mentions
LinesOf(reading) ==
  [k \in 1..Len(reading) |-> OrderItem(PRODUCTS[reading[k].code], reading[k].quantity)]

\* the same lines, in some order
SameLines(items, lines) ==
  /\ Len(items) = Len(lines)
  /\ \E f \in [1..Len(items) -> 1..Len(items)] :
       /\ \A i, j \in 1..Len(items) : i # j => f[i] # f[j]
       /\ \A i \in 1..Len(items) : items[i] = lines[f[i]]

\* C19 as stated: for a text made only of recognized mentions with positive quantities,
\* _basic_parse returns exactly one line per mention, and the total is the sum of
\* quantity times unit price over the mentions.
C19_OneLinePerMention ==
  Returned /\ source = "basic" /\ Readings(message) # {} =>
    \E reading \in Readings(message) :
      /\ SameLines(outcome.order.items, LinesOf(reading))
      /\ outcome.order.total_amount = Total(LinesOf(reading))

\* C20 as stated: the lines of _basic_parse's result are in the order in which their
\* mentions appear in the text, whichever way round a mention is written, and the text
\* "2 P-CHZ and 1 2L-BBQ" gives (P-CHZ, 2), (2L-BBQ, 1) with total 590.  The order is
\* judged on the texts whose mentions all came back as lines, one line each.
C20_LinesInTextOrder ==
  Returned /\ source = "basic" =>
    /\ (\E reading \in Readings(message) :
          SameLines(outcome.order.items, LinesOf(reading))) =>
         \E reading \in Readings(message) : outcome.order.items = LinesOf(reading)
    /\ message = <<"2", "P-CHZ", "and", "1", "2L-BBQ">> =>
         /\ outcome.order.items
              = <<OrderItem(PRODUCTS["P-CHZ"], 2), OrderItem(PRODUCTS["2L-BBQ"], 1)>>
         /\ outcome.order.total_amount = 590

(***************************************************************************)
(* Properties of the bot's chats (BotSpec).                                *)
(***************************************************************************)
\* the step is a confirm_order callback of chat c that found a pending order
ConfirmFound(c) == lastConfirm'.at = events' /\ lastConfirm'.by = c

\* the step wrote to the ledger for chat c
WroteFor(c) == \E e \in ledgerLog' : e.by = c /\ e.op = "write"

\* the pending order of chat c was cancelled, or inserted by a confirmation, and no
\* message was parsed in the chat since
Expired(c) == bot[c].cancelled \/ bot[c].inserts > 0

\* C21 as stated: after a cancel signal or a successful confirm, a further confirm signal
\* in the chat with no message parsed in between finds no pending order and writes
\* nothing; and what a confirm signal of a chat writes is the order pending in that chat.
C21_PendingExpires ==
  [][\A c \in Chats :
       /\ Expired(c) => ~ConfirmFound(c) /\ ~WroteFor(c)
       /\ WroteFor(c) => bot[c].pending /\ lastWrite'.parsed_order = bot[c].order]_vars

\* the same where every confirmation that inserted also sent its messages
C21_PendingExpiresWhenSent ==
  [][\A c \in Chats :
       /\ bot[c].cancelled \/ (bot[c].inserts > 0 /\ ~bot[c].pending)
            => ~ConfirmFound(c) /\ ~WroteFor(c)
       /\ WroteFor(c) => bot[c].pending /\ lastWrite'.parsed_order = bot[c].order]_vars

\* C27 as stated: over any sequence of confirm and cancel signals for one pending order,
\* insert_order succeeds for it at most once.
C27_InsertedAtMostOnce == \A c \in Chats : bot[c].inserts <= 1

\* the number a text of a total reads as
RECURSIVE GroupsValue(_)
GroupsValue(groups) ==
  IF groups = <<>> THEN 0
  ELSE GroupsValue(SubSeq(groups, 1, Len(groups) - 1)) * 1000 + groups[Len(groups)]

ValueOf(text) == IF text.minus THEN -GroupsValue(text.groups) ELSE GroupsValue(text.groups)

\* the sum of quantity times catalog price over the items of the bot's order
RECURSIVE CatalogSum(_)
CatalogSum(items) ==
  IF items = <<>> THEN 0
  ELSE Head(items).quantity * PRODUCTS[Head(items).product_code].price
         + CatalogSum(Tail(items))

\* an absent amount counts as 0
Counted(amount) == IF amount.present THEN amount.value ELSE 0

\* the summaries and breakdowns the chats were sent
Sent == {m \in UNION {{bot[c].summary, bot[c].breakdown} : c \in Chats} : m.total # <<>>}

\* C22: the final total the bot displays, in the summary and in the breakdown, reads as
\* subtotal + shipping_fee - discount_amount with absent fields counted as 0 and the
\* subtotal the sum of quantity times catalog price; a negative result is displayed as it
\* is.
C22_FinalTotal ==
  \A m \in Sent :
    /\ m.total[1].cents = ""
    /\ \A k \in 1..Len(m.total[1].groups) : k > 1 => m.total[1].groups[k] < 1000
    /\ ValueOf(m.total[1])
         = CatalogSum(m.items) + Counted(m.shipping_fee) - Counted(m.discount_amount)

\* a chat was sent a breakdown with the negative total -710 (one tub, discount 1000), and
\* a chat was sent a breakdown with a total above a thousand
C22_Witness ==
  /\ \E c \in Chats :
       /\ bot[c].breakdown.total # <<>>
       /\ bot[c].breakdown.total[1].minus
       /\ ValueOf(bot[c].breakdown.total[1]) = -710
       /\ ValueOf(bot[c].summary.total[1]) = -710
  /\ \E c \in Chats :
       /\ bot[c].breakdown.total # <<>>
       /\ bot[c].breakdown.total[1].groups = <<1, 250>>

\* C28: a confirm signal of a chat writes the order parsed last in that chat, whichever
\* summary's button was pressed; an order that another message replaced while it was
\* pending is not written any more.
C28_ConfirmWritesLatest ==
  [][\A c \in Chats :
       /\ ConfirmFound(c) => lastConfirm'.order = bot[c].latest
       /\ WroteFor(c) => lastWrite'.by = c /\ lastWrite'.parsed_order = bot[c].latest]_vars

\* a chat parsed a second message while the order of the first was pending, and a confirm
\* signal then inserted the second order; no row of the ledger holds the first customer
C28_Witness ==
  \E c \in Chats :
    /\ bot[c].replaced # NoOrder /\ bot[c].replaced # bot[c].latest
    /\ bot[c].replaced.customer_name # bot[c].latest.customer_name
    /\ bot[c].inserts > 0
    /\ lastWrite.by = c /\ lastWrite.parsed_order = bot[c].latest
    /\ Cell(sheet, lastWrite.row_number, "D") = bot[c].latest.customer_name
    /\ \A r \in 1..MaxRow : Cell(sheet, r, "D") # bot[c].replaced.customer_name

(***************************************************************************)
(* Properties of the front ends (Spec), continued.                         *)
(***************************************************************************)
\* the session or chat is offered the confirmation of an order with no line
OffersEmpty(by) ==
  IF by \in WebSessions
  THEN web[by].rendered /\ web[by].parsed_order.items = <<>>
  ELSE bot[by].buttons /\ bot[by].pending /\ bot[by].order.items = <<>>

\* the step wrote an order with no line to the ledger
WroteEmpty == (\E e \in ledgerLog' : e.op = "write") /\ lastWrite'.parsed_order.items = <<>>

\* C30 as stated: in both front ends an order with no line is never offered for
\* confirmation and never written to the ledger.
C30_NoEmptyOrder ==
  [][(\A by \in WebSessions \cup Chats : ~OffersEmpty(by)') /\ ~WroteEmpty]_vars

\* the same for the web front end alone
C30_NoEmptyOrderWeb ==
  [][/\ \A by \in WebSessions : ~OffersEmpty(by)'
     /\ \A e \in ledgerLog' : e.op = "write" /\ e.by \in WebSessions
                                => lastWrite'.parsed_order.items # <<>>]_vars

(***************************************************************************)
(* Properties of the decoding of the oracle's reply (InterpSpec).          *)
(***************************************************************************)
\* what the first of the three strategies that parses gives, in the order 1, 2, 3
FirstParsed(response) ==
  IF Strategy1(response) # NoJson THEN Strategy1(response)
  ELSE IF Strategy2(response) # NoJson THEN Strategy2(response)
  ELSE Strategy3(response)

\* the request ended with the oracle's order for the object json
YieldsOracleOrder(json) ==
  /\ source = "oracle" /\ outcome.raised = ""
  /\ outcome.order.customer_name = Get(json, "customer_name")
  /\ outcome.order.payment_method = Get(json, "payment_method")
  /\ outcome.order.customer_location = Get(json, "customer_location")
  /\ outcome.order.items = ItemsOfJson(json.items)

\* the oracle replied with a text
Replied == pc = "Done" /\ client /\ ~api.raises /\ api.response.has_content

\* C23 as stated: the reply is decoded by the first of the strategies 1 (braces), 2
\* (fenced block), 3 (whole reply) that parses; a reply that decodes to an object with an
\* items key yields the oracle's order, every other reply yields _basic_parse's result
\* for the same text.
C23_DecodeOrder ==
  Replied =>
    IF FirstParsed(api.response).type = "dict" /\ "items" \in FirstParsed(api.response).keys
    THEN YieldsOracleOrder(FirstParsed(api.response))
    ELSE source = "basic" /\ outcome = BasicParse(message)

\* building the order from the object raises: items is null, or an item has no product
\* code or a quantity that is no number
BuildRaises(json) ==
  json.items_null \/ \E k \in 1..Len(json.items) : ItemRaises(json.items[k])

\* the same for the replies whose object builds without raising; the others end with
\* _basic_parse's result
C23_DecodeOrderWhenBuilt ==
  Replied =>
    IF /\ FirstParsed(api.response).type = "dict"
       /\ "items" \in FirstParsed(api.response).keys
       /\ ~BuildRaises(FirstParsed(api.response))
    THEN YieldsOracleOrder(FirstParsed(api.response))
    ELSE source = "basic" /\ outcome = BasicParse(message)

(***************************************************************************)
(* Properties of the payment and location detection (ParseSpec).           *)
(***************************************************************************)
\* the keyword groups of the payment methods in their fixed order; a keyword that holds
\* another keyword of its group occurs only where that one occurs, and is left out
PaymentGroups ==
  <<[label |-> "Gcash", keywords |-> {<<"gcash">>, <<"g-cash">>, <<"g", "cash">>}],
    [label |-> "BPI", keywords |-> {<<"bpi">>}],
    [label |-> "Maya", keywords |-> {<<"maya">>}],
    [label |-> "Cash", keywords |-> {<<"cash">>, <<"cod">>}],
    [label |-> "BDO", keywords |-> {<<"bdo">>}],
    [label |-> "Others", keywords |-> {<<"transfer">>, <<"bank">>, <<"online">>}]>>

\* the groups with a keyword occurring in the text
GroupsIn(text) ==
  {i \in 1..Len(PaymentGroups) : \E keyword \in PaymentGroups[i].keywords : KeywordIn(keyword, text)}

\* C24: the payment method _basic_parse returns is the label of the first group, in the
\* order Gcash, BPI, Maya, Cash, BDO, Others, with a keyword occurring in the lowercased
\* text, wherever in the text the keywords are, and None exactly when no keyword of any
\* group occurs.
C24_FirstGroupWins ==
  Returned /\ source = "basic" =>
    /\ GroupsIn(message) # {}
         => outcome.order.payment_method = PaymentGroups[Min(GroupsIn(message))].label
    /\ GroupsIn(message) = {} <=> outcome.order.payment_method = None

\* a text with a BPI keyword before a Gcash keyword returned as Gcash, the Gcash group
\* being the first
C24_Witness ==
  /\ Returned /\ source = "basic"
  /\ message = <<"bpi", "gcash">>
  /\ GroupsIn(message) = {1, 2, 4}
  /\ outcome.order.payment_method = "Gcash"

\* a keyword of the Quezon City family, of the Paranaque family, occurs in the text
QuezonCityIn(text) == KeywordIn(<<"quezon", "city">>, text) \/ KeywordIn(<<"qc">>, text)

ParanaqueIn(text) ==
  \E keyword \in {<<"paranaque">>, <<"parana~aque">>, <<"para~aque">>} : KeywordIn(keyword, text)

\* C25: _basic_parse returns one location: Quezon City (seller Ferdie) when a keyword of
\* the Quezon City family occurs, also when a Paranaque keyword occurs too or first;
\* else Paranaque (seller Nina) when a keyword of that family occurs; else no location
\* and no seller.  The text "sa QC gcash" gives Gcash, Quezon City, Ferdie.
C25_FirstFamilyWins ==
  Returned /\ source = "basic" =>
    /\ <<outcome.order.customer_location, outcome.order.auto_sold_by>>
         = IF QuezonCityIn(message) THEN <<"Quezon City", "Ferdie">>
           ELSE IF ParanaqueIn(message) THEN <<"Paranaque", "Nina">>
           ELSE <<None, None>>
    /\ message = <<"sa", "QC", "gcash">>
         => /\ outcome.order.payment_method = "Gcash"
            /\ outcome.order.customer_location = "Quezon City"
            /\ outcome.order.auto_sold_by = "Ferdie"

\* a text with Paranaque before Quezon City returned as Quezon City
C25_Witness ==
  /\ Returned /\ source = "basic"
  /\ message = <<"paranaque", "quezon", "city">>
  /\ QuezonCityIn(message) /\ ParanaqueIn(message)
  /\ outcome.order.customer_location = "Quezon City"
  /\ outcome.order.auto_sold_by = "Ferdie"

(***************************************************************************)
(* Properties of the row detection (RowSpec, LedgerSpec).                  *)
(***************************************************************************)
\* the step is a run of main() in session s with Process Order clicked, on some message
\* (such a run leaves the chats and the ledger as they are)
ProcessedBy(s, custom_row, connected, scan) ==
  /\ sheet' = sheet
  /\ \E m \in WebMessages, oracle \in WebOracles :
       ProcessOrder(s, m, custom_row, oracle, connected, scan)

\* C26: a row detection whose scan raises gives the fallback row 526, whatever rows of
\* the ledger are occupied, and so does a row detection whose connection fails, with or
\* without a row override: the session's target row is 526 after the run.
C26_FallbackRow ==
  [][\A s \in RowSessions :
       /\ ProcessedBy(s, 0, TRUE, "raises")
            => /\ web'[s].next_row = FallbackRow
               /\ ledgerLog' = {LogEntry(s, "find", "process", FallbackRow)}
       /\ \A custom_row \in {0, 2} :
            ProcessedBy(s, custom_row, FALSE, "ok") => web'[s].next_row = FallbackRow]_vars

\* a session whose scan raised on a ledger with occupied rows (an open row below 526
\* was there to find) holds 526
C26_Witness ==
  \E s \in RowSessions :
    /\ LogEntry(s, "find", "process", FallbackRow) \in ledgerLog
    /\ web[s].next_row = FallbackRow
    /\ RowsWithData(sheet) # {}
    /\ FindNextAvailableRow(sheet, "ok") = 3

\* every call of find_next_available_row whose scan raised returned 526 (LedgerSpec)
C26_FindFallback ==
  \A i \in 1..Len(found) : found[i].scan = "raises" => found[i].row = FallbackRow

(***************************************************************************)
(* Properties of orders with a product code on several lines (LedgerSpec). *)
(***************************************************************************)
\* the lines of the order with the code
LinesWith(parsed_order, code) ==
  {k \in 1..Len(parsed_order.items) : parsed_order.items[k].product.code = code}

\* the places of the text where a quantity stands before the code
MentionsOf(text, code) ==
  {i \in 1..Len(text) - 1 : text[i] \in DOMAIN IntOf /\ Upper(text[i + 1]) = code}

\* the codes on two lines of the order or more
DuplicateCodes(parsed_order) ==
  {code \in CodesOf(parsed_order) : Cardinality(LinesWith(parsed_order, code)) >= 2}

\* every mention of the code in the order's text has a line of its own with its quantity
KeptApart(parsed_order, code) ==
  /\ Cardinality(LinesWith(parsed_order, code)) >= Cardinality(MentionsOf(parsed_order.raw_message, code))
  /\ \A i \in MentionsOf(parsed_order.raw_message, code) :
       \E k \in LinesWith(parsed_order, code) :
         parsed_order.items[k].quantity = IntOf[parsed_order.raw_message[i]]

\* C29 as stated: the mentions of one product code stay separate lines of the order, and
\* after update_order_simple wrote an order with a code on several lines, the code's
\* column of the row holds the quantity of the last of those lines.
C29_LastLineWins ==
  lastWrite.method = "simple" /\ lastWrite.result =>
    \A code \in DuplicateCodes(lastWrite.parsed_order) :
      /\ KeptApart(lastWrite.parsed_order, code)
      /\ Cell(sheet, lastWrite.row_number, FixedColumn[code])
           = StrOf[LastQuantity(lastWrite.parsed_order, code)]

\* the same when the last line's quantity is not 0
C29_LastLineWinsIfNotZero ==
  lastWrite.method = "simple" /\ lastWrite.result =>
    \A code \in DuplicateCodes(lastWrite.parsed_order) :
      /\ KeptApart(lastWrite.parsed_order, code)
      /\ LastQuantity(lastWrite.parsed_order, code) # 0
           => Cell(sheet, lastWrite.row_number, FixedColumn[code])
                = StrOf[LastQuantity(lastWrite.parsed_order, code)]

\* an order with P-SC on the lines 1, 5 and 5 written: column O holds 5
C29_LastOfThree ==
  /\ lastWrite.method = "simple" /\ lastWrite.result
  /\ Cardinality(LinesWith(lastWrite.parsed_order, "P-SC")) = 3
  /\ Cell(sheet, lastWrite.row_number, "O") = "5"

=============================================================================
